---------------------------- MODULE Spec2Model ----------------------------
(***************************************************************************)
(* BetterQuestingTools: the DefaultQuests database loader (src/db.rs,      *)
(* src/model.rs) and the prerequisite importance analyzer                  *)
(* (src/importance.rs).                                                    *)
(*                                                                         *)
(* Conventions                                                             *)
(*   Option<T>   a sequence of length 0 (None) or 1 (Some(x) = <<x>>).     *)
(*   String      the sequence of its ASCII codes.                          *)
(*   HashMap     a function; its iteration order is an input of the        *)
(*               operation that iterates it (a permutation of its keys).   *)
(*   f64         an exact rational [num, den] with den > 0; NaN is 0/0.    *)
(***************************************************************************)
EXTENDS Integers, Sequences, FiniteSets, TLC

VARIABLES
  fs,          \* the data source: the DefaultQuests directory tree
  loadResult,  \* result of parse_default_quests_dir_from_source
  db,          \* a QuestDatabase handed to the analyzer (its `quests` map)
  impResult,   \* result of compute_importance_scores, with its arguments
  call         \* a call of a library function: its arguments and its result

vars == <<fs, loadResult, db, impResult, call>>

(***************************************************************************)
(* Bounds of the model.                                                    *)
(***************************************************************************)
MaxEdits == 2      \* fields set in a database handed to the analyzer
MaxEntries == 3    \* entries written besides the standard directories
HalfBits == 4      \* width of one half of a QuestId (i32 scaled down)

(***************************************************************************)
(* Generic helpers.                                                        *)
(***************************************************************************)
None == <<>>
Some(x) == <<x>>
IsSome(o) == Len(o) = 1
Unwrap(o) == o[1]

EmptyMap == [x \in {} |-> x]
MapPut(m, k, v) == [x \in (DOMAIN m) \cup {k} |-> IF x = k THEN v ELSE m[x]]
MapRemove(m, k) == [x \in (DOMAIN m) \ {k} |-> m[x]]

Range(s) == {s[i] : i \in DOMAIN s}
Front(s) == SubSeq(s, 1, Len(s) - 1)
Perms(S) == {p \in [1..Cardinality(S) -> S] : Range(p) = S}

RECURSIVE Gcd(_, _)
Gcd(a, b) == IF b = 0 THEN a ELSE Gcd(b, a % b)
Abs(x) == IF x < 0 THEN -x ELSE x

(***************************************************************************)
(* f64 as exact rationals.                                                 *)
(***************************************************************************)
Rat(n, d) ==
  LET g == Gcd(Abs(n), Abs(d))
  IN IF d = 0 THEN [num |-> n, den |-> 0]
     ELSE IF d < 0 THEN [num |-> (0 - n) \div g, den |-> (0 - d) \div g]
     ELSE [num |-> n \div g, den |-> d \div g]
NaN == [num |-> 0, den |-> 0]
IsNaN(x) == x.den = 0 /\ x.num = 0
Zero == Rat(0, 1)
One == Rat(1, 1)
RAdd(x, y) == Rat(x.num * y.den + y.num * x.den, x.den * y.den)
RMul(x, y) == Rat(x.num * y.num, x.den * y.den)
RDiv(x, y) == Rat(x.num * y.den, x.den * y.num)
\* IEEE comparison: every comparison with NaN is false
RLe(x, y) == ~IsNaN(x) /\ ~IsNaN(y) /\ x.num * y.den <= y.num * x.den
RLt(x, y) == ~IsNaN(x) /\ ~IsNaN(y) /\ x.num * y.den < y.num * x.den

\* round(10000 * ln n) for n = 1..128
LnTable ==
  <<0, 6931, 10986, 13863, 16094, 17918, 19459, 20794, 21972, 23026, 23979,
    24849, 25649, 26391, 27081, 27726, 28332, 28904, 29444, 29957, 30445,
    30910, 31355, 31781, 32189, 32581, 32958, 33322, 33673, 34012, 34340,
    34657, 34965, 35264, 35553, 35835, 36109, 36376, 36636, 36889, 37136,
    37377, 37612, 37842, 38067, 38286, 38501, 38712, 38918, 39120, 39318,
    39512, 39703, 39890, 40073, 40254, 40431, 40604, 40775, 40943, 41109,
    41271, 41431, 41589, 41744, 41897, 42047, 42195, 42341, 42485, 42627,
    42767, 42905, 43041, 43175, 43307, 43438, 43567, 43694, 43820, 43944,
    44067, 44188, 44308, 44427, 44543, 44659, 44773, 44886, 44998, 45109,
    45218, 45326, 45433, 45539, 45643, 45747, 45850, 45951, 46052, 46151,
    46250, 46347, 46444, 46540, 46634, 46728, 46821, 46913, 47005, 47095,
    47185, 47274, 47362, 47449, 47536, 47622, 47707, 47791, 47875, 47958,
    48040, 48122, 48203, 48283, 48363, 48442, 48520>>
\* (1.0 + raw).ln(), to four decimals: ln((den + num) / den)
Ln1p(raw) == Rat(LnTable[raw.den + raw.num] - LnTable[raw.den], 10000)

(***************************************************************************)
(* Strings.                                                                *)
(***************************************************************************)
to_ascii_lowercase(c) == IF c \in 65..90 THEN c + 32 ELSE c
eq_ignore_ascii_case(a, b) ==
  /\ Len(a) = Len(b)
  /\ \A i \in 1..Len(a) : to_ascii_lowercase(a[i]) = to_ascii_lowercase(b[i])
StrXOR == <<88, 79, 82>>        \* "XOR"
StrxOr == <<120, 79, 114>>      \* "xOr"
StrOR == <<79, 82>>             \* "OR"
StrONE_OF == <<79, 78, 69, 95, 79, 70>>   \* "ONE_OF"
StrANY == <<65, 78, 89>>        \* "ANY"
\* String::to_uppercase, on ASCII text
to_uppercase(str) ==
  [i \in DOMAIN str |-> IF str[i] \in 97..122 THEN str[i] - 32 ELSE str[i]]


StrLess(a, b) ==   \* byte order of String, the key order of serde_json::Map
  \E i \in 1..(Len(a) + 1) :
    /\ i <= Len(b)
    /\ \A j \in 1..(i - 1) : a[j] = b[j]
    /\ (i = Len(a) + 1 \/ a[i] < b[i])
EndsWith(s, suffix) ==
  /\ Len(suffix) <= Len(s)
  /\ SubSeq(s, Len(s) - Len(suffix) + 1, Len(s)) = suffix
\* str::rfind(':'): the 1-based position of the last ':', or 0
RFindColon(k) ==
  IF \E i \in 1..Len(k) : k[i] = 58
  THEN CHOOSE i \in 1..Len(k) : k[i] = 58 /\ \A j \in (i + 1)..Len(k) : k[j] # 58
  ELSE 0

K_questIDHigh == <<113, 117, 101, 115, 116, 73, 68, 72, 105, 103, 104>>
K_questIDLow == <<113, 117, 101, 115, 116, 73, 68, 76, 111, 119>>
K_questLineIDHigh ==
  <<113, 117, 101, 115, 116, 76, 105, 110, 101, 73, 68, 72, 105, 103, 104>>
K_questLineIDLow ==
  <<113, 117, 101, 115, 116, 76, 105, 110, 101, 73, 68, 76, 111, 119>>
K_properties == <<112, 114, 111, 112, 101, 114, 116, 105, 101, 115>>
K_betterquesting ==
  <<98, 101, 116, 116, 101, 114, 113, 117, 101, 115, 116, 105, 110, 103>>
K_name == <<110, 97, 109, 101>>
K_questLogic == <<113, 117, 101, 115, 116, 76, 111, 103, 105, 99>>
K_isMain == <<105, 115, 77, 97, 105, 110>>
K_preRequisites ==
  <<112, 114, 101, 82, 101, 113, 117, 105, 115, 105, 116, 101, 115>>
K_optionalPreRequisites ==
  <<111, 112, 116, 105, 111, 110, 97, 108,
    80, 114, 101, 82, 101, 113, 117, 105, 115, 105, 116, 101, 115>>
K_version == <<118, 101, 114, 115, 105, 111, 110>>
StrDotJson == <<46, 106, 115, 111, 110>>                  \* ".json"
StrDotTxt == <<46, 116, 120, 116>>                        \* ".txt"
StrQuestLineJson ==                                      \* "QuestLine.json"
  <<81, 117, 101, 115, 116, 76, 105, 110, 101, 46, 106, 115, 111, 110>>
StrQuestSettingsJson ==                                  \* "QuestSettings.json"
  <<81, 117, 101, 115, 116, 83, 101, 116, 116, 105, 110, 103, 115,
    46, 106, 115, 111, 110>>
StrQuestSettings ==                                      \* "QuestSettings"
  <<81, 117, 101, 115, 116, 83, 101, 116, 116, 105, 110, 103, 115>>

(***************************************************************************)
(* QuestId (src/quest_id.rs), with HalfBits-bit halves.                    *)
(***************************************************************************)
RECURSIVE Pow2(_)
Pow2(n) == IF n = 0 THEN 1 ELSE 2 * Pow2(n - 1)
HalfMod == Pow2(HalfBits)
IdMod == Pow2(2 * HalfBits)

RECURSIVE BitOr(_, _)
BitOr(a, b) ==
  IF a = 0 THEN b
  ELSE IF b = 0 THEN a
  ELSE 2 * BitOr(a \div 2, b \div 2) + (IF a % 2 = 1 \/ b % 2 = 1 THEN 1 ELSE 0)

\* `n as i32` of an i64
AsI32(n) ==
  LET m == n % HalfMod IN IF m >= HalfMod \div 2 THEN m - HalfMod ELSE m

\* a low half widened with its sign, as `low as i64 as u64`
from_parts_SignExtendedLow(high, low) ==
  LET hi == high % IdMod
      lo == low % IdMod
  IN BitOr((hi * HalfMod) % IdMod, lo)
\* the u64 held by QuestId::from_parts(high, low)
from_parts(high, low) ==
  LET hi == high % IdMod          \* high as i64 as u64
      lo == low % HalfMod         \* low as u32 as u64
  IN BitOr((hi * HalfMod) % IdMod, lo)
as_u64(id) == id
from_u64(id) == id
\* `(self.0 >> 32) as u32` and `self.0 as u32`
high_u32(id) == (id \div HalfMod) % HalfMod
low_u32(id) == id % HalfMod
\* a high part read without its sign
high_part_Unsigned(id) == high_u32(id)
\* `(self.0 >> 32) as u32 as i32`
high_part(id) == AsI32((id \div HalfMod) % HalfMod)
\* `(self.0 & 0xFFFF_FFFF) as u32 as i32`
low_part(id) == AsI32(id % HalfMod)

(***************************************************************************)
(* serde_json::Value.  An object is a function from its keys; it is        *)
(* iterated in the byte order of the keys.                                 *)
(***************************************************************************)
JNull == [t |-> "null"]
JBool(b) == [t |-> "bool", b |-> b]
JNum(n) == [t |-> "num", n |-> n]
JStr(str) == [t |-> "str", s |-> str]
JArr(seq) == [t |-> "arr", a |-> seq]
JObj(map) == [t |-> "obj", m |-> map]
IsObj(v) == v.t = "obj"

MinKey(keys) == CHOOSE k \in keys : \A k2 \in keys \ {k} : StrLess(k, k2)
RECURSIVE SortedKeys(_)
SortedKeys(keys) ==
  IF keys = {} THEN <<>>
  ELSE <<MinKey(keys)>> \o SortedKeys(keys \ {MinKey(keys)})

\* Map::get
Get(map, k) == IF k \in DOMAIN map THEN Some(map[k]) ELSE None
\* Value::as_i64 (every number of the model is an integer in range)
AsI64(v) == IF v.t = "num" THEN Some(v.n) ELSE None

(***************************************************************************)
(* The normalizer (src/nbt_norm.rs).                                       *)
(***************************************************************************)
\* a key cut at its first ':'
StripSuffix_AtFirstColon(k) ==
  IF \E i \in 1..Len(k) : k[i] = 58
  THEN SubSeq(k, 1, (CHOOSE i \in 1..Len(k) :
                       k[i] = 58 /\ \A j \in 1..(i - 1) : k[j] # 58) - 1)
  ELSE k
StripSuffix(k) == IF RFindColon(k) = 0 THEN k ELSE SubSeq(k, 1, RFindColon(k) - 1)

RECURSIVE normalize_value(_), normalize_map(_), InsertStripped(_, _, _)
normalize_value(v) ==
  CASE v.t = "obj" -> JObj(normalize_map(v.m))
    [] v.t = "arr" -> JArr([i \in DOMAIN v.a |-> normalize_value(v.a[i])])
    [] OTHER -> v

\* the loop `for (k, v) in m { stripped.insert(key, normalize_value(v)) }`
InsertStripped(m, keys, stripped) ==
  IF keys = <<>> THEN stripped
  ELSE InsertStripped(m, Tail(keys),
         MapPut(stripped, StripSuffix(Head(keys)), normalize_value(m[Head(keys)])))

normalize_map(m) == InsertStripped(m, SortedKeys(DOMAIN m), EmptyMap)

(***************************************************************************)
(* Results and errors (src/error.rs).                                      *)
(***************************************************************************)
Ok(x) == [ok |-> TRUE, val |-> x]
Err(e) == [ok |-> FALSE, err |-> e]
\* the `?` operator: the error of r is returned, else the rest of the function
\* runs on its value
Try(r, rest(_)) == IF r.ok THEN rest(r.val) ELSE r
ErrJson == [kind |-> "Json", path |-> <<>>, questline |-> 0, quest_id |-> 0]
ErrIo == [kind |-> "Io", path |-> <<>>, questline |-> 0, quest_id |-> 0]
ErrInvalidFormat ==
  [kind |-> "InvalidFormat", path |-> <<>>, questline |-> 0, quest_id |-> 0]
ErrDuplicateQuestId(path) ==
  [kind |-> "DuplicateQuestId", path |-> path, questline |-> 0, quest_id |-> 0]
\* the two fields filled in the wrong way round
ErrMissingQuestReference_Swapped(questline, quest_id) ==
  [kind |-> "MissingQuestReference", path |-> <<>>,
   questline |-> quest_id, quest_id |-> questline]
ErrMissingQuestReference(questline, quest_id) ==
  [kind |-> "MissingQuestReference", path |-> <<>>,
   questline |-> questline, quest_id |-> quest_id]

(***************************************************************************)
(* serde deserialization of the raw model (src/model_raw.rs).              *)
(***************************************************************************)
\* Option<i64> field
DeOptI64(map, k) ==
  IF k \notin DOMAIN map \/ map[k].t = "null" THEN Ok(None)
  ELSE IF map[k].t = "num" THEN Ok(Some(map[k].n))
  ELSE Err(ErrJson)

\* Option<String> field with `default`
DeOptString(map, k) ==
  IF k \notin DOMAIN map \/ map[k].t = "null" THEN Ok(None)
  ELSE IF map[k].t = "str" THEN Ok(Some(map[k].s))
  ELSE Err(ErrJson)

\* deserialize_with of the flag fields
bool_from_int(v) ==
  CASE v.t = "bool" -> Ok(Some(v.b))
    [] v.t = "num" -> IF v.n = 0 THEN Ok(Some(FALSE))
                      ELSE IF v.n = 1 THEN Ok(Some(TRUE))
                      ELSE Err(ErrJson)
    [] v.t = "null" -> Ok(None)
    [] OTHER -> Err(ErrJson)

\* a flag field: `default` when the key is missing
DeFlag(map, k) == IF k \notin DOMAIN map THEN Ok(None) ELSE bool_from_int(map[k])

\* RawQuestProperties: `name: String` is required
DeRawQuestProperties(v) ==
  IF v.t # "obj" THEN Err(ErrJson)
  ELSE IF K_name \notin DOMAIN v.m THEN Err(ErrJson)
  ELSE IF v.m[K_name].t # "str" THEN Err(ErrJson)
  ELSE Try(DeFlag(v.m, K_isMain), LAMBDA is_main :
       Try(DeOptString(v.m, K_questLogic), LAMBDA quest_logic :
       Ok([name |-> v.m[K_name].s, is_main |-> is_main,
           quest_logic |-> quest_logic])))

\* Option<RawQuestRefs>: the untagged enum takes an object or an array
DeRawQuestRefs(map, k) ==
  IF k \notin DOMAIN map \/ map[k].t = "null" THEN Ok(None)
  ELSE IF map[k].t \in {"obj", "arr"} THEN Ok(Some(map[k]))
  ELSE Err(ErrJson)

\* RawPropertiesWrapper: `betterquesting` plus the flattened rest
DeRawPropertiesWrapper(v) ==
  IF v.t # "obj" THEN Err(ErrJson)
  ELSE LET extra == [k \in (DOMAIN v.m) \ {K_betterquesting} |-> v.m[k]]
       IN IF K_betterquesting \notin DOMAIN v.m \/ v.m[K_betterquesting].t = "null"
          THEN Ok([betterquesting |-> None, extra |-> extra])
          ELSE LET bq == DeRawQuestProperties(v.m[K_betterquesting])
               IN IF bq.ok
                  THEN Ok([betterquesting |-> Some(bq.val), extra |-> extra])
                  ELSE Err(ErrJson)

\* serde_json::from_str::<RawQuest> on the text of the value v
DeRawQuest(v) ==
  IF v.t # "obj" THEN Err(ErrJson)
  ELSE
    LET high == DeOptI64(v.m, K_questIDHigh)
        low == DeOptI64(v.m, K_questIDLow)
        props == IF K_properties \notin DOMAIN v.m \/ v.m[K_properties].t = "null"
                 THEN Ok(None)
                 ELSE LET w == DeRawPropertiesWrapper(v.m[K_properties])
                      IN IF w.ok THEN Ok(Some(w.val)) ELSE Err(ErrJson)
        pre == DeRawQuestRefs(v.m, K_preRequisites)
        opt == DeRawQuestRefs(v.m, K_optionalPreRequisites)
        extra == [k \in (DOMAIN v.m) \ {K_questIDHigh, K_questIDLow, K_properties,
                                        K_preRequisites, K_optionalPreRequisites}
                    |-> v.m[k]]
    IN IF ~high.ok \/ ~low.ok \/ ~props.ok \/ ~pre.ok \/ ~opt.ok THEN Err(ErrJson)
       ELSE Ok([quest_id_high |-> high.val, quest_id_low |-> low.val,
                properties |-> props.val, pre_requisites |-> pre.val,
                optional_pre_requisites |-> opt.val, extra |-> extra])

(***************************************************************************)
(* Quest::from_raw (src/model.rs).                                         *)
(***************************************************************************)
UnwrapOr(o, d) == IF IsSome(o) THEN Unwrap(o) ELSE d

convert_raw_props(props) ==
  [name |-> props.name, is_main |-> props.is_main,
   quest_logic |-> props.quest_logic]

\* serde_json::from_value::<RawQuestProperties>(normalize_value(v)).ok()
PropsFromValue(v) ==
  LET rp == DeRawQuestProperties(normalize_value(v))
  IN IF rp.ok THEN Some(convert_raw_props(rp.val)) ELSE None

\* `betterquesting`, else the first entry, of a normalized object
PropsFromObject(obj) ==
  IF K_betterquesting \in DOMAIN obj THEN PropsFromValue(obj[K_betterquesting])
  ELSE IF DOMAIN obj # {} THEN PropsFromValue(obj[MinKey(DOMAIN obj)])
  ELSE None

RawProperties(raw) ==
  IF IsSome(raw.properties)
  THEN LET wrapper == Unwrap(raw.properties)
       IN IF IsSome(wrapper.betterquesting)
          THEN Some(convert_raw_props(Unwrap(wrapper.betterquesting)))
          ELSE IF DOMAIN wrapper.extra # {}
          THEN PropsFromObject(normalize_map(wrapper.extra))
          ELSE None
  ELSE IF DOMAIN raw.extra # {}
  THEN LET obj == normalize_map(raw.extra)
       IN IF K_properties \in DOMAIN obj
          THEN LET prop_norm == normalize_value(obj[K_properties])
               IN IF prop_norm.t = "obj" THEN PropsFromObject(prop_norm.m) ELSE None
          ELSE None
  ELSE None

RawId(raw) ==
  from_parts(AsI32(UnwrapOr(raw.quest_id_high, 0)),
             AsI32(UnwrapOr(raw.quest_id_low, 0)))

\* `.get(key).and_then(|x| x.as_i64()).unwrap_or(0) as i32`
RefPart(map, key) ==
  AsI32(IF key \in DOMAIN map /\ map[key].t = "num" THEN map[key].n ELSE 0)

\* the orders in which the HashMap of an object-form reference list can be
\* iterated; an array has the one order of its elements
HashOrders(val) ==
  IF IsSome(val) /\ Unwrap(val).t = "obj"
  THEN Perms(DOMAIN Unwrap(val).m)
  ELSE {<<>>}

RECURSIVE PushPrereqs(_, _)
\* the loop body of parse_prereqs: an element that normalizes to an object
\* is pushed as an id, any other element is skipped
PushPrereqs(elems, out) ==
  IF elems = <<>> THEN out
  ELSE PushPrereqs(Tail(elems),
         IF normalize_value(Head(elems)).t = "obj"
         THEN Append(out, from_parts(
                RefPart(normalize_value(Head(elems)).m, K_questIDHigh),
                RefPart(normalize_value(Head(elems)).m, K_questIDLow)))
         ELSE out)

parse_prereqs(val, order) ==
  IF ~IsSome(val) THEN <<>>
  ELSE IF Unwrap(val).t = "obj"
  THEN PushPrereqs([i \in DOMAIN order |-> Unwrap(val).m[order[i]]], <<>>)
  ELSE PushPrereqs(Unwrap(val).a, <<>>)

\* a test that knows the logic "OR" only
is_or_OrOnly(properties) ==
  /\ IsSome(properties)
  /\ IsSome(Unwrap(properties).quest_logic)
  /\ to_uppercase(Unwrap(Unwrap(properties).quest_logic)) = StrOR
\* the quest logic, uppercased, makes the prerequisites alternatives
is_or(properties) ==
  /\ IsSome(properties)
  /\ IsSome(Unwrap(properties).quest_logic)
  /\ to_uppercase(Unwrap(Unwrap(properties).quest_logic))
       \in {StrOR, StrONE_OF, StrANY, StrXOR}

\* a split that leaves the optional ids in the required list
SplitPrereqs_NoRemoval(all_prereqs, optional_prereqs, properties) ==
  IF optional_prereqs # <<>>
  THEN [required |-> all_prereqs, optional |-> optional_prereqs]
  ELSE IF is_or(properties)
  THEN [required |-> <<>>, optional |-> all_prereqs]
  ELSE [required |-> all_prereqs, optional |-> <<>>]
\* "Decide which prereqs are required vs optional": the same statements in
\* Quest::from_raw and in parse_quest_from_value
SplitPrereqs(all_prereqs, optional_prereqs, properties) ==
  IF optional_prereqs # <<>>
  THEN [required |-> SelectSeq(all_prereqs,
                               LAMBDA q : as_u64(q) \notin
                                 {as_u64(o) : o \in Range(optional_prereqs)}),
        optional |-> optional_prereqs]
  ELSE IF is_or(properties)
  THEN [required |-> <<>>, optional |-> all_prereqs]
  ELSE [required |-> all_prereqs, optional |-> <<>>]

\* the Quest returned by either loader
QuestOf(id, properties, split) ==
  [id |-> id, properties |-> properties,
   prerequisites |-> split.required,
   required_prerequisites |-> split.required,
   optional_prerequisites |-> split.optional]

\* pre_order and opt_order are the iteration orders of the two reference maps
from_raw(raw, pre_order, opt_order) ==
  IF ~IsSome(RawProperties(raw)) THEN Err(ErrInvalidFormat)
  ELSE Ok(QuestOf(RawId(raw), RawProperties(raw),
                  SplitPrereqs(parse_prereqs(raw.pre_requisites, pre_order),
                               parse_prereqs(raw.optional_pre_requisites, opt_order),
                               RawProperties(raw))))

(***************************************************************************)
(* The per-file quest parser (src/parser.rs).                              *)
(***************************************************************************)
IsDigits(str) == str # <<>> /\ \A i \in DOMAIN str : str[i] \in 48..57
RECURSIVE DecValue(_)
DecValue(str) ==
  IF str = <<>> THEN 0 ELSE 10 * DecValue(Front(str)) + (str[Len(str)] - 48)
\* str::parse::<usize>: digits after an optional '+'
parse_usize(str) ==
  IF str # <<>> /\ str[1] = 43
  THEN IF IsDigits(Tail(str)) THEN Some(DecValue(Tail(str))) ELSE None
  ELSE IF IsDigits(str) THEN Some(DecValue(str)) ELSE None
\* str::parse::<i32>: digits after an optional sign, within the range of i32
parse_i32(str) ==
  LET neg == str # <<>> /\ str[1] = 45
      digits == IF str # <<>> /\ str[1] \in {43, 45} THEN Tail(str) ELSE str
      n == IF neg THEN 0 - DecValue(digits) ELSE DecValue(digits)
  IN IF IsDigits(digits) /\ n >= 0 - (HalfMod \div 2) /\ n < HalfMod \div 2
     THEN Some(n) ELSE None

RECURSIVE Ascending(_)
\* the keys of a BTreeMap<usize, _> in iteration order
Ascending(idxs) ==
  IF idxs = {} THEN <<>>
  ELSE LET least == CHOOSE i \in idxs : \A j \in idxs : i <= j
       IN <<least>> \o Ascending(idxs \ {least})

\* the values of a map whose keys are all indices, by ascending index; of
\* two keys with one index the later in key order is the one inserted last
map_to_array_if_numeric(m) ==
  IF \E k \in DOMAIN m : parse_usize(k) = None THEN None
  ELSE IF DOMAIN m = {} THEN None
  ELSE LET idxs == Ascending({Unwrap(parse_usize(k)) : k \in DOMAIN m})
           last(idx) == CHOOSE k \in DOMAIN m :
                          /\ Unwrap(parse_usize(k)) = idx
                          /\ \A k2 \in DOMAIN m :
                               Unwrap(parse_usize(k2)) = idx => k2 = k \/ StrLess(k2, k)
       IN Some([i \in DOMAIN idxs |-> m[last(idxs[i])]])

get_i32(m, k) ==
  IF k \notin DOMAIN m THEN None
  ELSE IF m[k].t = "num" THEN Some(AsI32(m[k].n))
  ELSE IF m[k].t = "str" THEN parse_i32(m[k].s)
  ELSE None

parse_bool_like(v) ==
  CASE v.t = "bool" -> Some(v.b)
    [] v.t = "num" -> Some(v.n # 0)
    [] v.t = "str" -> IF v.s = <<48>> THEN Some(FALSE)
                      ELSE IF v.s = <<49>> THEN Some(TRUE)
                      ELSE None
    [] OTHER -> None

\* `map.get(k).and_then(|x| x.as_str().map(|s| s.to_string()))`
GetString(map, k) ==
  IF k \in DOMAIN map /\ map[k].t = "str" THEN Some(map[k].s) ELSE None
\* `map.get(k).and_then(parse_bool_like)`
GetFlag(map, k) == IF k \in DOMAIN map THEN parse_bool_like(map[k]) ELSE None

parse_properties(v) ==
  IF v.t # "obj" THEN Ok(None)
  ELSE Ok(Some([name |-> GetString(v.m, K_name),
                is_main |-> GetFlag(v.m, K_isMain),
                quest_logic |-> GetString(v.m, K_questLogic)]))

\* the `properties` of parse_quest_from_value
ParsedProperties(obj) ==
  IF K_properties \in DOMAIN obj /\ obj[K_properties].t = "obj"
  THEN IF K_betterquesting \in DOMAIN obj[K_properties].m
       THEN parse_properties(obj[K_properties].m[K_betterquesting])
       ELSE IF DOMAIN obj[K_properties].m # {}
       THEN parse_properties(obj[K_properties].m[MinKey(DOMAIN obj[K_properties].m)])
       ELSE Ok(None)
  ELSE Ok(None)

RECURSIVE PushRefs(_, _)
\* the loops that push the id of every element that is an object
PushRefs(elems, out) ==
  IF elems = <<>> THEN out
  ELSE PushRefs(Tail(elems),
         IF Head(elems).t = "obj"
         THEN Append(out, from_parts(
                UnwrapOr(get_i32(Head(elems).m, K_questIDHigh), 0),
                UnwrapOr(get_i32(Head(elems).m, K_questIDLow), 0)))
         ELSE out)

\* the flat list read from `preRequisites` or `optionalPreRequisites`
ParsedRefs(obj, key) ==
  IF key \notin DOMAIN obj THEN <<>>
  ELSE IF obj[key].t = "obj"
  THEN IF IsSome(map_to_array_if_numeric(obj[key].m))
       THEN PushRefs(Unwrap(map_to_array_if_numeric(obj[key].m)), <<>>)
       ELSE <<>>
  ELSE IF obj[key].t = "arr" THEN PushRefs(obj[key].a, <<>>)
  ELSE <<>>

parse_quest_from_value(v) ==
  IF v.t # "obj" THEN Err(ErrInvalidFormat)
  ELSE Try(ParsedProperties(v.m),
           LAMBDA properties :
             Ok(QuestOf(from_parts(UnwrapOr(get_i32(v.m, K_questIDHigh), 0),
                                   UnwrapOr(get_i32(v.m, K_questIDLow), 0)),
                        properties,
                        SplitPrereqs(ParsedRefs(v.m, K_preRequisites),
                                     ParsedRefs(v.m, K_optionalPreRequisites),
                                     properties))))

\* parse_quest_from_reader on the text of the JSON value v
parse_quest_from_reader(v) == parse_quest_from_value(normalize_value(v))

(***************************************************************************)
(* The data source (trait QuestDataSource) over a directory tree.  A path  *)
(* is the sequence of its components; a node is a file or a directory.     *)
(***************************************************************************)
FileNode(name, readable, json) ==
  [name |-> name, is_dir |-> FALSE, readable |-> readable, json |-> json,
   children |-> <<>>]
DirNode(name, children) ==
  [name |-> name, is_dir |-> TRUE, readable |-> FALSE, json |-> None,
   children |-> children]

\* the child of a directory listing with the given name
Child(children, name) ==
  IF \E i \in DOMAIN children : children[i].name = name
  THEN Some(children[CHOOSE i \in DOMAIN children : children[i].name = name])
  ELSE None

RECURSIVE Lookup(_, _)
Lookup(node, path) ==
  IF path = <<>> THEN Some(node)
  ELSE IF ~node.is_dir THEN None
  ELSE LET c == Child(node.children, Head(path))
       IN IF IsSome(c) THEN Lookup(Unwrap(c), Tail(path)) ELSE None

\* the node at `path` under the root; fs.root_is_dir tells whether the root
\* itself is a directory
NodeAt(source, path) ==
  IF ~source.root_is_dir THEN None
  ELSE Lookup(DirNode(<<>>, source.root), path)

is_dir(source, path) == \E n \in Range(NodeAt(source, path)) : n.is_dir
is_file(source, path) == \E n \in Range(NodeAt(source, path)) : ~n.is_dir
\* the leaf names of a directory, in the order the source returns them
list_dir(source, path) ==
  LET ch == Unwrap(NodeAt(source, path)).children
  IN [i \in DOMAIN ch |-> ch[i].name]
\* Ok(text) or an I/O error; the text is its parsed value (None: not JSON)
read_to_string(source, path) ==
  LET n == Unwrap(NodeAt(source, path))
  IN IF n.readable THEN Ok(n.json) ELSE Err(ErrIo)

\* read_to_string followed by serde_json::from_str::<Value>
ReadJson(source, path) ==
  Try(read_to_string(source, path),
      LAMBDA s : IF ~IsSome(s) THEN Err(ErrJson) ELSE Ok(Unwrap(s)))

(***************************************************************************)
(* The loader (src/db.rs).                                                 *)
(***************************************************************************)
StrQuests == <<81, 117, 101, 115, 116, 115>>                           \* "Quests"
StrQuestLines == <<81, 117, 101, 115, 116, 76, 105, 110, 101, 115>>    \* "QuestLines"
K_x == <<120>>

\* the map without one key, as the loops `if k == "version" { continue; }`
WithoutVersion(map) == [k \in (DOMAIN map) \ {K_version} |-> map[k]]
\* map.get("version").and_then(|x| x.as_str())
VersionOf(map) ==
  IF K_version \in DOMAIN map /\ map[K_version].t = "str"
  THEN Some(map[K_version].s) ELSE None
SettingsFrom(map) == [version |-> VersionOf(map), extra |-> WithoutVersion(map)]

\* the value picked inside `properties`: betterquesting, else the first entry
SettingsInner(props_map) ==
  IF K_betterquesting \in DOMAIN props_map THEN props_map[K_betterquesting]
  ELSE IF DOMAIN props_map # {} THEN props_map[MinKey(DOMAIN props_map)]
  ELSE JNull

parse_settings_value(v) ==
  IF v.t # "obj" THEN [version |-> None, extra |-> EmptyMap]
  ELSE IF /\ K_properties \in DOMAIN v.m
          /\ v.m[K_properties].t = "obj"
          /\ SettingsInner(v.m[K_properties].m).t = "obj"
  THEN SettingsFrom(SettingsInner(v.m[K_properties].m).m)
  ELSE IF K_betterquesting \in DOMAIN v.m /\ v.m[K_betterquesting].t = "obj"
  THEN SettingsFrom(v.m[K_betterquesting].m)
  ELSE SettingsFrom(v.m)

parse_settings_file_from_source(source, path) ==
  Try(ReadJson(source, path), LAMBDA v : Ok(parse_settings_value(v)))

\* the loop over settings_paths: the first name that is a file
LoadSettings(source) ==
  IF is_file(source, <<StrQuestSettingsJson>>)
  THEN Try(parse_settings_file_from_source(source, <<StrQuestSettingsJson>>),
           LAMBDA settings : Ok(Some(settings)))
  ELSE IF is_file(source, <<StrQuestSettings>>)
  THEN Try(parse_settings_file_from_source(source, <<StrQuestSettings>>),
           LAMBDA settings : Ok(Some(settings)))
  ELSE Ok(None)

\* one file of Quests/: read, deserialize, convert (a quest file without an
\* object-form reference list has one iteration order)
LoadQuestFile(source, path) ==
  Try(read_to_string(source, path),
      LAMBDA s : IF ~IsSome(s) THEN Err(ErrJson)
                 ELSE Try(DeRawQuest(Unwrap(s)),
                          LAMBDA raw :
                            from_raw(raw,
                                     CHOOSE o \in HashOrders(raw.pre_requisites) : TRUE,
                                     CHOOSE o \in HashOrders(raw.optional_pre_requisites) : TRUE)))

\* a loop whose insert replaces the quest already stored under the id
RECURSIVE LoadQuests_Replacing(_, _, _, _)
LoadQuests_Replacing(source, dir, names, quests) ==
  IF names = <<>> THEN Ok(quests)
  ELSE LET path == Append(dir, Head(names))
       IN IF is_file(source, path) /\ EndsWith(Head(names), StrDotJson)
          THEN Try(LoadQuestFile(source, path),
                   LAMBDA q : LoadQuests_Replacing(source, dir, Tail(names),
                                                   MapPut(quests, q.id, q)))
          ELSE LoadQuests_Replacing(source, dir, Tail(names), quests)

\* the loop `for entry in source.list_dir(&quests_dir)?`
RECURSIVE LoadQuests(_, _, _, _)
LoadQuests(source, dir, names, quests) ==
  IF names = <<>> THEN Ok(quests)
  ELSE LET path == Append(dir, Head(names))
       IN IF is_file(source, path) /\ EndsWith(Head(names), StrDotJson)
          THEN Try(LoadQuestFile(source, path),
                   LAMBDA q : IF q.id \in DOMAIN quests
                              THEN Err(ErrDuplicateQuestId(path))
                              ELSE LoadQuests(source, dir, Tail(names),
                                              MapPut(quests, q.id, q)))
          ELSE LoadQuests(source, dir, Tail(names), quests)

\* map.get(key).and_then(as_i64).map(|n| n as i32).unwrap_or(0)
get_i32_or_zero(map, key) ==
  IF key \in DOMAIN map /\ map[key].t = "num" THEN AsI32(map[key].n) ELSE 0
\* map.get(key).and_then(|x| x.as_i64().map(|n| n as i32))
get_opt_i32(map, key) ==
  IF key \in DOMAIN map /\ map[key].t = "num" THEN Some(AsI32(map[key].n)) ELSE None

\* the QuestLineEntry built from a normalized object
EntryOf(map) ==
  [quest_id |-> from_parts(get_i32_or_zero(map, K_questIDHigh),
                           get_i32_or_zero(map, K_questIDLow)),
   x |-> get_opt_i32(map, K_x)]

\* an entry reader that skips a file it cannot parse
parse_questline_entry_file_from_source_Lenient(source, p) ==
  LET v == ReadJson(source, p)
  IN IF ~v.ok THEN Ok(None)
     ELSE LET norm == normalize_value(v.val)
          IN IF norm.t = "obj" THEN Ok(Some(EntryOf(norm.m))) ELSE Ok(None)
parse_questline_entry_file_from_source(source, p) ==
  Try(ReadJson(source, p),
      LAMBDA v : LET norm == normalize_value(v)
                 IN IF norm.t = "obj" THEN Ok(Some(EntryOf(norm.m))) ELSE Ok(None))

\* serde_json::from_value::<QuestProperties>(normalize_value(v)).ok()
LinePropsFromValue(v) ==
  LET n == normalize_value(v)
  IN IF n.t = "obj" /\ K_name \in DOMAIN n.m /\ n.m[K_name].t = "str"
     THEN Some([name |-> n.m[K_name].s]) ELSE None

\* the closure computing `props` of a questline header
LineProps(map) ==
  IF K_properties \in DOMAIN map /\ map[K_properties].t = "obj"
  THEN LET obj == map[K_properties].m
       IN IF K_betterquesting \in DOMAIN obj THEN LinePropsFromValue(obj[K_betterquesting])
          ELSE IF DOMAIN obj # {} THEN LinePropsFromValue(obj[MinKey(DOMAIN obj)])
          ELSE None
  ELSE None

\* the QuestLine built from a normalized header object, without its entries
HeaderOf(map) ==
  [id |-> from_parts(get_i32_or_zero(map, K_questLineIDHigh),
                     get_i32_or_zero(map, K_questLineIDLow)),
   properties |-> LineProps(map),
   entries |-> <<>>]

\* the first half of parse_questline_dir_from_source: Result<Option<QuestLine>>
ParseHeader(source, path) ==
  LET qline_json == Append(path, StrQuestLineJson)
  IN IF ~is_file(source, qline_json) THEN Ok(None)
     ELSE Try(ReadJson(source, qline_json),
              LAMBDA v : LET norm == normalize_value(v)
                         IN IF norm.t # "obj" THEN Ok(None)
                            ELSE Ok(Some(HeaderOf(norm.m))))

\* the loop `for entry in source.list_dir(path)?` collecting the entries
RECURSIVE ParseEntries(_, _, _, _)
ParseEntries(source, path, names, entries) ==
  IF names = <<>> THEN Ok(entries)
  ELSE LET p == Append(path, Head(names))
       IN IF /\ is_file(source, p) /\ EndsWith(Head(names), StrDotJson)
             /\ Head(names) # StrQuestLineJson
          THEN Try(parse_questline_entry_file_from_source(source, p),
                   LAMBDA e : ParseEntries(source, path, Tail(names),
                                IF IsSome(e) THEN Append(entries, Unwrap(e))
                                ELSE entries))
          ELSE ParseEntries(source, path, Tail(names), entries)

parse_questline_dir_from_source(source, path) ==
  Try(ParseHeader(source, path),
      LAMBDA qline_opt :
        Try(IF is_dir(source, path)
            THEN ParseEntries(source, path, list_dir(source, path), <<>>)
            ELSE Ok(<<>>),
            LAMBDA entries : Ok([qline_opt |-> qline_opt, entries |-> entries])))

\* a stable sort by key, as Vec::sort_by_key
RECURSIVE InsertSorted(_, _)
InsertSorted(sorted, e) ==
  IF sorted = <<>> THEN <<e>>
  ELSE IF as_u64(e.quest_id) < as_u64(Head(sorted).quest_id)
  THEN <<e>> \o sorted
  ELSE <<Head(sorted)>> \o InsertSorted(Tail(sorted), e)
\* entries left in the order of the directory listing
sort_by_key_Unsorted(entries) == entries
RECURSIVE sort_by_key(_)
sort_by_key(entries) ==
  IF entries = <<>> THEN <<>>
  ELSE InsertSorted(sort_by_key(Front(entries)), entries[Len(entries)])

\* a loop whose insert replaces the questline already stored under the id
RECURSIVE LoadQuestLines_Replacing(_, _, _, _)
LoadQuestLines_Replacing(source, dir, names, questlines) ==
  IF names = <<>> THEN Ok(questlines)
  ELSE LET path == Append(dir, Head(names))
       IN IF ~is_dir(source, path)
          THEN LoadQuestLines_Replacing(source, dir, Tail(names), questlines)
          ELSE Try(parse_questline_dir_from_source(source, path),
                   LAMBDA r :
                     IF ~IsSome(r.qline_opt)
                     THEN LoadQuestLines_Replacing(source, dir, Tail(names), questlines)
                     ELSE LoadQuestLines_Replacing(source, dir, Tail(names),
                            MapPut(questlines, Unwrap(r.qline_opt).id,
                                   [Unwrap(r.qline_opt) EXCEPT
                                      !.entries = sort_by_key(r.entries)])))

\* the loop `for entry in source.list_dir(qlines_dir)?`
RECURSIVE LoadQuestLines(_, _, _, _)
LoadQuestLines(source, dir, names, questlines) ==
  IF names = <<>> THEN Ok(questlines)
  ELSE LET path == Append(dir, Head(names))
       IN IF ~is_dir(source, path)
          THEN LoadQuestLines(source, dir, Tail(names), questlines)
          ELSE Try(parse_questline_dir_from_source(source, path),
                   LAMBDA r :
                     IF ~IsSome(r.qline_opt)
                     THEN LoadQuestLines(source, dir, Tail(names), questlines)
                     ELSE LET qline == [Unwrap(r.qline_opt) EXCEPT
                                          !.entries = sort_by_key(r.entries)]
                          IN IF qline.id \in DOMAIN questlines
                             THEN Err(ErrDuplicateQuestId(path))
                             ELSE LoadQuestLines(source, dir, Tail(names),
                                    MapPut(questlines, qline.id, qline)))

\* Result<HashMap<QuestId, QuestLine>>; questline_order is the key order of the
\* map, chosen where the database is assembled
parse_questlines_dir_from_source(source, qlines_dir) ==
  IF is_dir(source, qlines_dir)
  THEN LoadQuestLines(source, qlines_dir, list_dir(source, qlines_dir), EmptyMap)
  ELSE Ok(EmptyMap)

\* the reference check `for (qlid, qline) in &questlines`, in the iteration
\* order `order` of the map: the first missing reference, if any
RECURSIVE FirstMissingEntry(_, _)
FirstMissingEntry(entries, quests) ==
  IF entries = <<>> THEN None
  ELSE IF Head(entries).quest_id \notin DOMAIN quests THEN Some(Head(entries).quest_id)
  ELSE FirstMissingEntry(Tail(entries), quests)
\* a reference check that accepts every entry
ResolveReferences_Unchecked(questlines, order, quests) == Ok(TRUE)
RECURSIVE ResolveReferences(_, _, _)
ResolveReferences(questlines, order, quests) ==
  IF order = <<>> THEN Ok(TRUE)
  ELSE LET missing == FirstMissingEntry(questlines[Head(order)].entries, quests)
       IN IF IsSome(missing)
          THEN Err(ErrMissingQuestReference(as_u64(Head(order)), Unwrap(missing)))
          ELSE ResolveReferences(questlines, Tail(order), quests)

\* everything before the reference check: settings, quests and questlines
ParseAll(source) ==
  IF ~is_dir(source, <<>>) THEN Err(ErrInvalidFormat)
  ELSE
    Try(LoadSettings(source),
        LAMBDA settings :
          Try(IF is_dir(source, <<StrQuests>>)
              THEN LoadQuests(source, <<StrQuests>>,
                              list_dir(source, <<StrQuests>>), EmptyMap)
              ELSE Ok(EmptyMap),
              LAMBDA quests :
                Try(parse_questlines_dir_from_source(source, <<StrQuestLines>>),
                    LAMBDA questlines :
                      Ok([settings |-> settings, quests |-> quests,
                          questlines |-> questlines]))))

\* the outcome of the loader: the error, or the database
LoadErr(e) ==
  [kind |-> e.kind, path |-> e.path, questline |-> e.questline,
   quest_id |-> e.quest_id, db |-> None]
LoadOk(database) ==
  [kind |-> "Ok", path |-> <<>>, questline |-> 0, quest_id |-> 0,
   db |-> Some(database)]

\* `order` is the iteration order of the questlines map
AssembleDatabase(parsed, order) ==
  IF ~parsed.ok THEN LoadErr(parsed.err)
  ELSE LET refs == ResolveReferences(parsed.val.questlines, order, parsed.val.quests)
       IN IF ~refs.ok THEN LoadErr(refs.err)
          ELSE LoadOk([settings |-> parsed.val.settings,
                       quests |-> parsed.val.quests,
                       questlines |-> parsed.val.questlines,
                       questline_order |-> order])

LineOrders(parsed) ==
  IF parsed.ok THEN Perms(DOMAIN parsed.val.questlines) ELSE {<<>>}

parse_default_quests_dir_from_source(source, order) ==
  AssembleDatabase(ParseAll(source), order)

(***************************************************************************)
(* The importance analyzer: compute_importance_scores.                     *)
(***************************************************************************)
\* the range test written as `alpha < 0.0 || alpha > 1.0`, negated
AlphaInRange_NaNPasses(alpha) == ~(RLt(alpha, Zero) \/ RLt(One, alpha))
AlphaInRange(alpha) == RLe(Zero, alpha) /\ RLe(alpha, One)

\* a comparison with "XOR" that is not case-insensitive
IsXor_CaseSensitive(quest) ==
  /\ IsSome(quest.properties)
  /\ IsSome(Unwrap(quest.properties).quest_logic)
  /\ Unwrap(Unwrap(quest.properties).quest_logic) = StrXOR

IsXor(quest) ==
  /\ IsSome(quest.properties)
  /\ IsSome(Unwrap(quest.properties).quest_logic)
  /\ eq_ignore_ascii_case(Unwrap(Unwrap(quest.properties).quest_logic), StrXOR)

RECURSIVE Dedupe(_, _, _)
\* push the elements of `list` whose as_u64 is not yet in `seen`
Dedupe(list, seen, out) ==
  IF list = <<>> THEN [out |-> out, seen |-> seen]
  ELSE IF Head(list) \in seen THEN Dedupe(Tail(list), seen, out)
  ELSE Dedupe(Tail(list), seen \cup {Head(list)}, Append(out, Head(list)))

BaseRequired(quest) ==
  IF quest.required_prerequisites # <<>>
  THEN quest.required_prerequisites
  ELSE quest.prerequisites

RequiredOf(quest) == Dedupe(BaseRequired(quest), {}, <<>>).out
OptionalsOf(quest) ==
  Dedupe(quest.optional_prerequisites,
         Dedupe(BaseRequired(quest), {}, <<>>).seen, <<>>).out

\* an optional edge that is not split among the group
OptionalWeight_Whole(optionals) == One
\* `1.0 / (optionals.len() as f64)`
OptionalWeight(optionals) == Rat(1, Len(optionals))

RECURSIVE PushDependents(_, _, _, _)
\* dependents.entry(p).or_default().push((qid, w)) for each p of ps
PushDependents(dependents, ps, qid, w) ==
  IF ps = <<>> THEN dependents
  ELSE LET p == Head(ps)
           old == IF p \in DOMAIN dependents THEN dependents[p] ELSE <<>>
       IN PushDependents(MapPut(dependents, p, Append(old, <<qid, w>>)),
                         Tail(ps), qid, w)

\* an iteration that leaves the optional edges out of the adjacency
GraphStep_RequiredOnlyAdj(g, qid, quest) ==
  IF IsXor(quest) THEN g
  ELSE LET required == RequiredOf(quest)
           optionals == OptionalsOf(quest)
           d1 == PushDependents(g.dependents, required, qid, One)
           d2 == IF optionals # <<>>
                 THEN PushDependents(d1, optionals, qid, OptionalWeight(optionals))
                 ELSE d1
       IN [adj |-> MapPut(g.adj, qid, required), dependents |-> d2]

\* one iteration of the graph construction loop
GraphStep(g, qid, quest) ==
  IF IsXor(quest) THEN g
  ELSE LET required == RequiredOf(quest)
           optionals == OptionalsOf(quest)
           d1 == PushDependents(g.dependents, required, qid, One)
           d2 == IF optionals # <<>>
                 THEN PushDependents(d1, optionals, qid, OptionalWeight(optionals))
                 ELSE d1
       IN [adj |-> MapPut(g.adj, qid, required \o optionals), dependents |-> d2]

RECURSIVE BuildGraph(_, _, _)
BuildGraph(quests, order, g) ==
  IF order = <<>> THEN g
  ELSE BuildGraph(quests, Tail(order),
                  GraphStep(g, Head(order), quests[Head(order)]))

EmptyGraph == [adj |-> EmptyMap, dependents |-> EmptyMap]

(***************************************************************************)
(* Cycle detection: three-colour depth-first search.                       *)
(***************************************************************************)
DfsInit(quests) ==
  [color |-> [k \in DOMAIN quests |-> "White"],
   stack |-> <<>>, pos_in_stack |-> EmptyMap, cycle |-> None]

\* a witness that is the whole stack
CycleSlice_WholeStack(st, nei, node) == st.stack
\* the witness returned on a gray successor
CycleSlice(st, nei, node) ==
  IF nei \in DOMAIN st.pos_in_stack
  THEN SubSeq(st.stack, st.pos_in_stack[nei] + 1, Len(st.stack))
  ELSE <<nei, node>>

RECURSIVE dfs_visit(_, _, _), dfs_neis(_, _, _, _)
dfs_visit(node, adj, st) ==
  LET entered == [color |-> MapPut(st.color, node, "Gray"),
                  pos_in_stack |-> MapPut(st.pos_in_stack, node, Len(st.stack)),
                  stack |-> Append(st.stack, node),
                  cycle |-> None]
      after == IF node \in DOMAIN adj THEN dfs_neis(node, adj, 1, entered)
               ELSE entered
  IN IF IsSome(after.cycle) THEN after
     ELSE [color |-> MapPut(after.color, node, "Black"),
           pos_in_stack |-> MapRemove(after.pos_in_stack, node),
           stack |-> Front(after.stack),
           cycle |-> None]

\* the loop over the successors of `node`, from index i
dfs_neis(node, adj, i, st) ==
  IF i > Len(adj[node]) THEN st
  ELSE LET nei == adj[node][i]
           c == IF nei \in DOMAIN st.color THEN st.color[nei] ELSE "Absent"
       IN CASE c = "White" ->
                 LET sub == dfs_visit(nei, adj, st)
                 IN IF IsSome(sub.cycle) THEN sub
                    ELSE dfs_neis(node, adj, i + 1, sub)
            [] c = "Gray" -> [st EXCEPT !.cycle = Some(CycleSlice(st, nei, node))]
            [] OTHER -> dfs_neis(node, adj, i + 1, st)

RECURSIVE DetectCycle(_, _, _)
\* the loop over db.quests.keys() that starts a search from every white node
DetectCycle(order, adj, st) ==
  IF order = <<>> THEN st
  ELSE IF st.color[Head(order)] = "White"
       THEN LET r == dfs_visit(Head(order), adj, st)
            IN IF IsSome(r.cycle) THEN r ELSE DetectCycle(Tail(order), adj, r)
       ELSE DetectCycle(Tail(order), adj, st)

(***************************************************************************)
(* Scores.                                                                 *)
(***************************************************************************)
RECURSIVE FoldWeights(_, _)
FoldWeights(deps, acc) ==
  IF deps = <<>> THEN acc
  ELSE FoldWeights(Tail(deps), RAdd(acc, Head(deps)[2]))

RawOf(dependents, q) ==
  IF q \in DOMAIN dependents THEN FoldWeights(dependents[q], Zero) ELSE Zero

BaseOf(dependents, q, use_log) ==
  IF use_log THEN Ln1p(RawOf(dependents, q)) ELSE RawOf(dependents, q)

RECURSIVE FoldProp(_, _, _)
FoldProp(deps, base, acc) ==
  IF deps = <<>> THEN acc
  ELSE LET d == Head(deps)[1]
           w == Head(deps)[2]
           bd == IF d \in DOMAIN base THEN base[d] ELSE Zero
       IN FoldProp(Tail(deps), base, RAdd(acc, RMul(w, bd)))

\* a score whose propagated part is not discounted by alpha
ScoreOf_Undiscounted(dependents, base, q, alpha) ==
  LET prop == IF q \in DOMAIN dependents
              THEN FoldProp(dependents[q], base, Zero) ELSE Zero
  IN RAdd(base[q], prop)

ScoreOf(dependents, base, q, alpha) ==
  LET prop == IF q \in DOMAIN dependents
              THEN FoldProp(dependents[q], base, Zero) ELSE Zero
  IN RAdd(base[q], RMul(alpha, prop))

\* f64::max: the other operand when one is NaN
F64Max(x, y) == IF IsNaN(x) THEN y ELSE IF IsNaN(y) THEN x
                ELSE IF RLt(x, y) THEN y ELSE x
RECURSIVE FoldMax(_, _, _)
FoldMax(score, keys, acc) ==
  IF keys = {} THEN acc
  ELSE LET k == CHOOSE k \in keys : TRUE
       IN FoldMax(score, keys \ {k}, F64Max(acc, score[k]))

\* a returned score: q / 1.000000001^eps
Plain(score) == [k \in DOMAIN score |-> [q |-> score[k], eps |-> 0]]
\* a division by the maximum itself, without the inflation of the divisor
Normalize_ByMax(score) ==
  LET max == FoldMax(score, DOMAIN score, NaN)
  IN IF IsNaN(max) \/ max = Zero THEN Plain(score)
     ELSE [k \in DOMAIN score |-> [q |-> RDiv(score[k], max), eps |-> 0]]
Normalize(score) ==
  LET max == FoldMax(score, DOMAIN score, NaN)
  IN IF IsNaN(max) \/ max = Zero THEN Plain(score)
     ELSE [k \in DOMAIN score |-> [q |-> RDiv(score[k], max), eps |-> 1]]

ImpOk(scores) ==
  [kind |-> "Ok", scores |-> scores, cycle |-> <<>>, value |-> None]
ImpErrAlpha(alpha) ==
  [kind |-> "AlphaOutOfRange", scores |-> EmptyMap, cycle |-> <<>>,
   value |-> Some(alpha)]
ImpErrCycle(cycle) ==
  [kind |-> "CycleDetected", scores |-> EmptyMap, cycle |-> cycle,
   value |-> None]

\* graph construction and cycle detection; `order` is the iteration order
\* of the db.quests HashMap
Analyze(quests, order) ==
  LET g == BuildGraph(quests, order, EmptyGraph)
  IN [dependents |-> g.dependents,
      cycle |-> DetectCycle(order, g.adj, DfsInit(quests)).cycle]

\* scores computed for the keys of `dependents` in place of the quests
Finish_OverDependents(quests, an, alpha, use_log, normalize) ==
  LET base == [q \in DOMAIN quests |-> BaseOf(an.dependents, q, use_log)]
      score == [q \in DOMAIN an.dependents |->
                  ScoreOf(an.dependents,
                          [k \in DOMAIN an.dependents |->
                             IF k \in DOMAIN base THEN base[k] ELSE Zero],
                          q, alpha)]
  IN IF IsSome(an.cycle) THEN ImpErrCycle(Unwrap(an.cycle))
     ELSE IF normalize THEN ImpOk(Normalize(score))
     ELSE ImpOk(Plain(score))

\* base scores, propagation and normalization, after the analysis `an`
Finish(quests, an, alpha, use_log, normalize) ==
  LET base == [q \in DOMAIN quests |-> BaseOf(an.dependents, q, use_log)]
      score == [q \in DOMAIN quests |-> ScoreOf(an.dependents, base, q, alpha)]
  IN IF IsSome(an.cycle) THEN ImpErrCycle(Unwrap(an.cycle))
     ELSE IF normalize THEN ImpOk(Normalize(score))
     ELSE ImpOk(Plain(score))

compute_importance_scores(quests, alpha, use_log, normalize, order) ==
  IF ~AlphaInRange(alpha) THEN ImpErrAlpha(alpha)
  ELSE Finish(quests, Analyze(quests, order), alpha, use_log, normalize)

(***************************************************************************)
(* order_prereqs_for_quest.                                                *)
(***************************************************************************)
\* f64::partial_cmp: None when an operand is NaN
partial_cmp(x, y) ==
  IF IsNaN(x) \/ IsNaN(y) THEN None
  ELSE IF RLt(x, y) THEN Some("Less")
  ELSE IF RLt(y, x) THEN Some("Greater")
  ELSE Some("Equal")
\* u64::cmp
cmp(a, b) == IF a < b THEN "Less" ELSE IF a > b THEN "Greater" ELSE "Equal"

\* the closure given to sort_by, on pairs <<id, score>>
PrereqCompare(a, b) ==
  LET ord == UnwrapOr(partial_cmp(b[2], a[2]), "Equal")
  IN IF ord = "Equal" THEN cmp(as_u64(a[1]), as_u64(b[1])) ELSE ord

\* slice::sort_by on a short slice: a stable insertion sort, each element
\* moved left while it compares Less than its left neighbour
RECURSIVE insert_tail(_, _)
insert_tail(sorted, e) ==
  IF sorted = <<>> \/ PrereqCompare(e, sorted[Len(sorted)]) # "Less"
  THEN Append(sorted, e)
  ELSE Append(insert_tail(Front(sorted), e), sorted[Len(sorted)])
RECURSIVE sort_by(_)
sort_by(v) ==
  IF v = <<>> THEN <<>>
  ELSE insert_tail(sort_by(Front(v)), v[Len(v)])

\* `*scores.get(q).unwrap_or(&0.0)`
ScoreOrZero(scores, q) == IF q \in DOMAIN scores THEN scores[q] ELSE Zero

order_prereqs_for_quest(quest, scores) ==
  sort_by([i \in DOMAIN quest.prerequisites |->
             <<quest.prerequisites[i], ScoreOrZero(scores, quest.prerequisites[i])>>])

(***************************************************************************)
(* The analyzer's state machine: a database is put together field by       *)
(* field (the fields of Quest are public), then analysed.                  *)
(***************************************************************************)
QuestIds == {1, 2, 3}
NewQuest ==
  [properties |-> None, prerequisites |-> <<>>,
   required_prerequisites |-> <<>>, optional_prerequisites |-> <<>>]
LogicValues == {Some(StrXOR), Some(StrxOr), Some(StrOR)}
Alphas == {Rat(0 - 1, 2), Zero, Rat(1, 2), One, Rat(3, 2), NaN}

NotCalled ==
  [called |-> FALSE, alpha |-> Zero, use_log |-> FALSE, normalize |-> FALSE,
   out |-> ImpOk(EmptyMap)]

RECURSIVE SumOver(_, _)
SumOver(f, keys) ==
  IF keys = {} THEN 0
  ELSE LET k == CHOOSE k \in keys : TRUE IN f[k] + SumOver(f, keys \ {k})

\* the number of edits that made `quests` from new quests
Edits(quests) ==
  SumOver([q \in DOMAIN quests |->
             Len(quests[q].prerequisites) + Len(quests[q].optional_prerequisites)
             + Len(quests[q].properties)],
          DOMAIN quests)

NoFs == [root_is_dir |-> FALSE, root |-> <<>>]
NoCall == [fn |-> "none"]
NoLoad ==
  [kind |-> "NotLoaded", path |-> <<>>, questline |-> 0, quest_id |-> 0, db |-> None]

InitImp ==
  /\ \E n \in 0..Cardinality(QuestIds) : db = [quests |-> [q \in 1..n |-> NewQuest]]
  /\ impResult = NotCalled
  /\ fs = NoFs
  /\ loadResult = NoLoad
  /\ call = NoCall

CanEdit == ~impResult.called /\ Edits(db.quests) < MaxEdits

\* a required prerequisite, mirrored in `prerequisites` as the loaders do
PushRequired(q, p) ==
  /\ CanEdit
  /\ db.quests[q].prerequisites = db.quests[q].required_prerequisites
  /\ db' = [db EXCEPT !.quests[q].required_prerequisites = Append(@, p),
                      !.quests[q].prerequisites = Append(@, p)]
  /\ UNCHANGED <<impResult, fs, loadResult, call>>

PushOptional(q, p) ==
  /\ CanEdit
  /\ db.quests[q].prerequisites = db.quests[q].required_prerequisites
  /\ db' = [db EXCEPT !.quests[q].optional_prerequisites = Append(@, p)]
  /\ UNCHANGED <<impResult, fs, loadResult, call>>

\* a prerequisite of a quest whose producer fills the generic list only
PushPrerequisite(q, p) ==
  /\ CanEdit
  /\ db.quests[q].required_prerequisites = <<>>
  /\ db.quests[q].optional_prerequisites = <<>>
  /\ db' = [db EXCEPT !.quests[q].prerequisites = Append(@, p)]
  /\ UNCHANGED <<impResult, fs, loadResult, call>>

SetProperties(q, logic) ==
  /\ CanEdit
  /\ ~IsSome(db.quests[q].properties)
  /\ db' = [db EXCEPT !.quests[q].properties = Some([quest_logic |-> logic])]
  /\ UNCHANGED <<impResult, fs, loadResult, call>>

\* one call of compute_importance_scores on the database, for every
\* iteration order of its quests HashMap
Compute ==
  /\ ~impResult.called
  /\ LET analyses == {Analyze(db.quests, order) : order \in Perms(DOMAIN db.quests)}
     IN \E alpha \in Alphas, use_log \in BOOLEAN, normalize \in BOOLEAN :
          \E out \in IF ~AlphaInRange(alpha) THEN {ImpErrAlpha(alpha)}
                     ELSE {Finish(db.quests, an, alpha, use_log, normalize) :
                             an \in analyses} :
            impResult' = [called |-> TRUE, alpha |-> alpha, use_log |-> use_log,
                          normalize |-> normalize, out |-> out]
  /\ UNCHANGED <<db, fs, loadResult, call>>

NextImp ==
  \/ \E q \in DOMAIN db.quests, p \in QuestIds : PushRequired(q, p)
  \/ \E q \in DOMAIN db.quests, p \in QuestIds : PushOptional(q, p)
  \/ \E q \in DOMAIN db.quests, p \in QuestIds : PushPrerequisite(q, p)
  \/ \E q \in DOMAIN db.quests, logic \in LogicValues : SetProperties(q, logic)
  \/ Compute

SpecImp == InitImp /\ [][NextImp]_vars

(***************************************************************************)
(* The cycle detection of compute_importance_scores, one step at a time:   *)
(* an iteration of the loop over db.quests.keys(), an entry of dfs_visit,  *)
(* one successor of the loop over `neis`, a return.  `frames` is the call  *)
(* stack of dfs_visit, `remaining` the keys the outer loop has yet to      *)
(* reach (the HashMap yields them in any order), `visits` the quests in    *)
(* the order dfs_visit was entered for them.                               *)
(***************************************************************************)
MaxAdj == 2        \* prerequisites of a quest of the searched database

\* the lists of at most MaxAdj different ids
DfsLists(targets) ==
  UNION {{l \in [1..k -> targets] : \A i, j \in 1..k : l[i] = l[j] => i = j} :
           k \in 0..MaxAdj}
\* a quest as the loaders build it: the first id required, the others optional
DfsQuest(list) ==
  IF list = <<>> THEN NewQuest
  ELSE [properties |-> None,
        prerequisites |-> <<Head(list)>>,
        required_prerequisites |-> <<Head(list)>>,
        optional_prerequisites |-> Tail(list)]
\* a quest whose edges the graph construction leaves out
DfsXorQuest ==
  [properties |-> Some([quest_logic |-> Some(StrXOR)]),
   prerequisites |-> <<1>>, required_prerequisites |-> <<1>>,
   optional_prerequisites |-> <<>>]
DfsQuests(targets) == {DfsQuest(l) : l \in DfsLists(targets)} \cup {DfsXorQuest}

\* the state of the search before the loop over the keys
DfsCall(quests, order) ==
  [fn |-> "detect_cycle",
   adj |-> BuildGraph(quests, order, EmptyGraph).adj,
   color |-> DfsInit(quests).color,
   stack |-> DfsInit(quests).stack,
   pos_in_stack |-> DfsInit(quests).pos_in_stack,
   remaining |-> DOMAIN quests,
   frames |-> <<>>,
   visits |-> <<>>,
   result |-> "running",
   cycle |-> <<>>,
   fallback |-> FALSE]

\* the ids 1..n are quests of the database, n + 1 is not
InitDfs ==
  /\ \E n \in 1..Cardinality(QuestIds) :
       \E quests \in [1..n -> DfsQuests(1..(n + 1))], order \in Perms(1..n) :
         /\ db = [quests |-> quests]
         /\ call = DfsCall(quests, order)
  /\ impResult = NotCalled
  /\ fs = NoFs
  /\ loadResult = NoLoad

\* the first three statements of dfs_visit, without the position
Entered_NoPosition(c, node) ==
  [c EXCEPT !.color = MapPut(@, node, "Gray"),
            !.stack = Append(@, node),
            !.frames = Append(@, [node |-> node, i |-> 1]),
            !.visits = Append(@, node)]
\* the first three statements of dfs_visit
Entered(c, node) ==
  [c EXCEPT !.color = MapPut(@, node, "Gray"),
            !.pos_in_stack = MapPut(@, node, Len(c.stack)),
            !.stack = Append(@, node),
            !.frames = Append(@, [node |-> node, i |-> 1]),
            !.visits = Append(@, node)]

\* the caller resumes its loop at the next successor
Returned(frames) ==
  IF Len(frames) = 1 THEN <<>>
  ELSE [Front(frames) EXCEPT ![Len(frames) - 1].i = @ + 1]
\* a return that leaves the quest white
Left_StaysWhite(c, node) ==
  [c EXCEPT !.stack = Front(@),
            !.pos_in_stack = MapRemove(@, node),
            !.color = MapPut(@, node, "White"),
            !.frames = Returned(@)]
\* the last four statements of dfs_visit
Left(c, node) ==
  [c EXCEPT !.stack = Front(@),
            !.pos_in_stack = MapRemove(@, node),
            !.color = MapPut(@, node, "Black"),
            !.frames = Returned(@)]

Running == call.fn = "detect_cycle" /\ call.result = "running"
Searching == Running /\ call.frames # <<>>
Top == call.frames[Len(call.frames)]
\* adj.get(node), an absent entry read as no successor
NeisOf(adj, node) == IF node \in DOMAIN adj THEN adj[node] ELSE <<>>
\* color.get(nei)
ColorOf(color, nei) == IF nei \in DOMAIN color THEN color[nei] ELSE "Absent"
AtNei == Searching /\ Top.i <= Len(NeisOf(call.adj, Top.node))
Nei == NeisOf(call.adj, Top.node)[Top.i]

\* an iteration of the outer loop on a white key: dfs_visit is entered
LoopVisit(node) ==
  /\ Running /\ call.frames = <<>>
  /\ node \in call.remaining
  /\ ColorOf(call.color, node) = "White"
  /\ call' = Entered([call EXCEPT !.remaining = @ \ {node}], node)
  /\ UNCHANGED <<fs, loadResult, db, impResult>>

\* an iteration of the outer loop on a key that is not white
LoopSkip(node) ==
  /\ Running /\ call.frames = <<>>
  /\ node \in call.remaining
  /\ ColorOf(call.color, node) # "White"
  /\ call' = [call EXCEPT !.remaining = @ \ {node}]
  /\ UNCHANGED <<fs, loadResult, db, impResult>>

\* the outer loop ends: no cycle
LoopEnd ==
  /\ Running /\ call.frames = <<>>
  /\ call.remaining = {}
  /\ call' = [call EXCEPT !.result = "ok"]
  /\ UNCHANGED <<fs, loadResult, db, impResult>>

\* Some(Color::White): the recursive call
Recurse ==
  /\ AtNei
  /\ ColorOf(call.color, Nei) = "White"
  /\ call' = Entered(call, Nei)
  /\ UNCHANGED <<fs, loadResult, db, impResult>>

\* Some(Color::Gray): the witness is returned through every caller
FoundGray ==
  /\ AtNei
  /\ ColorOf(call.color, Nei) = "Gray"
  /\ call' = [call EXCEPT !.result = "cycle",
                          !.cycle = CycleSlice(call, Nei, Top.node),
                          !.fallback = Nei \notin DOMAIN call.pos_in_stack]
  /\ UNCHANGED <<fs, loadResult, db, impResult>>

\* a black successor, or one that is no quest of the database
SkipNei ==
  /\ AtNei
  /\ ColorOf(call.color, Nei) \notin {"White", "Gray"}
  /\ call' = [call EXCEPT !.frames[Len(call.frames)].i = @ + 1]
  /\ UNCHANGED <<fs, loadResult, db, impResult>>

\* the loop over the successors is over: dfs_visit returns None
Leave ==
  /\ Searching /\ ~AtNei
  /\ call' = Left(call, Top.node)
  /\ UNCHANGED <<fs, loadResult, db, impResult>>

NextDfs ==
  \/ \E node \in DOMAIN db.quests : LoopVisit(node)
  \/ \E node \in DOMAIN db.quests : LoopSkip(node)
  \/ LoopEnd
  \/ Recurse
  \/ FoundGray
  \/ SkipNei
  \/ Leave

SpecDfs == InitDfs /\ [][NextDfs]_vars
\* the search is one sequential call: it takes its next step when it has one
SpecDfsLive == SpecDfs /\ WF_vars(NextDfs)

(***************************************************************************)
(* Calls of order_prereqs_for_quest on a quest and a score map.            *)
(***************************************************************************)
MaxPrereqs == 3    \* length of the prerequisites list of the quest
ScoreValues == {Zero, Rat(1, 2), One, NaN}
RECURSIVE SeqsUpTo(_, _)
SeqsUpTo(S, n) ==
  IF n = 0 THEN {<<>>}
  ELSE SeqsUpTo(S, n - 1) \cup {Append(q, x) : q \in SeqsUpTo(S, n - 1), x \in S}
ScoreMaps == UNION {[keys -> ScoreValues] : keys \in SUBSET QuestIds}

InitOrder ==
  /\ \E prerequisites \in SeqsUpTo(QuestIds, MaxPrereqs), scores \in ScoreMaps :
       call = [fn |-> "order_prereqs_for_quest",
               quest |-> [NewQuest EXCEPT !.prerequisites = prerequisites],
               scores |-> scores, ret |-> None]
  /\ fs = NoFs
  /\ loadResult = NoLoad
  /\ db = [quests |-> EmptyMap]
  /\ impResult = NotCalled

OrderPrereqs ==
  /\ call.ret = None
  /\ call' = [call EXCEPT !.ret = Some(order_prereqs_for_quest(call.quest, call.scores))]
  /\ UNCHANGED <<fs, loadResult, db, impResult>>

NextOrder == OrderPrereqs

SpecOrder == InitOrder /\ [][NextOrder]_vars

(***************************************************************************)
(* QuestIds made from every pair of halves, and read back.                 *)
(***************************************************************************)
I32Min == 0 - (HalfMod \div 2)
I32Max == (HalfMod \div 2) - 1
I32 == I32Min..I32Max

InitId ==
  /\ \E high \in I32, low \in I32 :
       call = [fn |-> "QuestId::from_parts", high |-> high, low |-> low,
               id |-> None, back |-> None]
  /\ fs = NoFs
  /\ loadResult = NoLoad
  /\ db = [quests |-> EmptyMap]
  /\ impResult = NotCalled

FromParts ==
  /\ call.id = None
  /\ call' = [call EXCEPT !.id = Some(from_parts(call.high, call.low))]
  /\ UNCHANGED <<fs, loadResult, db, impResult>>

\* QuestId::from_u64(qid.as_u64())
FromU64 ==
  /\ call.id # None
  /\ call.back = None
  /\ call' = [call EXCEPT !.back = Some(from_u64(as_u64(Unwrap(call.id))))]
  /\ UNCHANGED <<fs, loadResult, db, impResult>>

NextId == FromParts \/ FromU64

SpecId == InitId /\ [][NextId]_vars

(***************************************************************************)
(* Calls of normalize_value on JSON documents of the NBT-tagged dialect.   *)
(***************************************************************************)
MaxKeys == 2       \* keys of an innermost object
StrA == <<97>>                                  \* "a"
StrAB == <<97, 58, 98>>                         \* "a:b"
Str0 == <<48>>                                  \* "0"
Str1 == <<49>>                                  \* "1"
StrId == <<105, 100>>                           \* "id"
StrFoo == <<102, 111, 111>>                     \* "foo"
StrBar == <<98, 97, 114>>                       \* "bar"
\* "a", "a:8", "a:10", "a:b:8", "0:10", "1:10", "id:8"
NormKeys ==
  {StrA, StrA \o <<58>> \o <<56>>, StrA \o <<58>> \o <<49, 48>>,
   StrAB \o <<58>> \o <<56>>, Str0 \o <<58>> \o <<49, 48>>,
   Str1 \o <<58>> \o <<49, 48>>, StrId \o <<58>> \o <<56>>}
Scalars == {JNum(1), JNum(2), JStr(StrFoo), JStr(StrBar)}
\* the objects over the keys K with values in V, of at most n keys
ObjectsOver(K, V, n) ==
  {JObj(m) : m \in UNION {[keys -> V] : keys \in {S \in SUBSET K : Cardinality(S) <= n}}}
\* scalars, and objects and arrays of scalars
FlatValues ==
  Scalars \cup ObjectsOver(NormKeys, Scalars, MaxKeys)
    \cup {JArr(<<>>)} \cup {JArr(<<x>>) : x \in Scalars}
\* {"0:10": {"id:8": "foo"}, "1:10": {"id:8": "bar"}}
IndexMapDoc ==
  JObj((Str0 \o <<58>> \o <<49, 48>>) :> JObj((StrId \o <<58>> \o <<56>>) :> JStr(StrFoo))
       @@ (Str1 \o <<58>> \o <<49, 48>>) :> JObj((StrId \o <<58>> \o <<56>>) :> JStr(StrBar)))
\* the documents normalized: flat values, and one more level around them
Documents ==
  FlatValues \cup ObjectsOver(NormKeys, FlatValues, 1)
    \cup {JArr(<<x>>) : x \in FlatValues} \cup {IndexMapDoc}

InitNorm ==
  /\ \E v \in Documents :
       call = [fn |-> "normalize_value", v |-> v, normalized |-> FALSE, ret |-> None]
  /\ fs = NoFs
  /\ loadResult = NoLoad
  /\ db = [quests |-> EmptyMap]
  /\ impResult = NotCalled

NormalizeValue ==
  /\ call.ret = None
  /\ call' = [call EXCEPT !.ret = Some(normalize_value(call.v))]
  /\ UNCHANGED <<fs, loadResult, db, impResult>>

\* the value returned is normalized once more
NormalizeAgain ==
  /\ call.ret # None
  /\ call' = [call EXCEPT !.v = Unwrap(call.ret), !.normalized = TRUE, !.ret = None]
  /\ UNCHANGED <<fs, loadResult, db, impResult>>

NextNorm == NormalizeValue \/ NormalizeAgain

SpecNorm == InitNorm /\ [][NextNorm]_vars

(***************************************************************************)
(* The loader's environment: a DefaultQuests tree is written, then loaded. *)
(***************************************************************************)
StrQ == <<81>>                                  \* the quest name "Q"
StrV1 == <<49>>                                 \* the version "1"
\* "key" or "key:<type id>", the NBT-tagged form
Key(k, type_id, tagged) == IF tagged THEN k \o <<58>> \o type_id ELSE k
TagInt == <<52>>                                \* "4"
TagCompound == <<49, 48>>                       \* "10"
TagString == <<56>>                             \* "8"
TagTyped == <<51>>                              \* "3"

\* a quest file as BetterQuesting writes it
QuestDoc(tagged, high, low, named) ==
  LET ids == Key(K_questIDHigh, TagInt, tagged) :> JNum(high)
               @@ Key(K_questIDLow, TagInt, tagged) :> JNum(low)
      props == Key(K_properties, TagCompound, tagged) :>
                 JObj(Key(K_betterquesting, TagCompound, tagged) :>
                        JObj(Key(K_name, TagString, tagged) :> JStr(StrQ)))
  IN JObj(IF named THEN ids @@ props ELSE ids)
HeaderDoc(tagged, low) ==
  JObj(Key(K_questLineIDHigh, TagInt, tagged) :> JNum(0)
         @@ Key(K_questLineIDLow, TagInt, tagged) :> JNum(low))
EntryDoc(tagged, high, low) ==
  JObj(Key(K_questIDHigh, TagInt, tagged) :> JNum(high)
         @@ Key(K_questIDLow, TagInt, tagged) :> JNum(low)
         @@ Key(K_x, TagTyped, tagged) :> JNum(low))
SettingsDoc == JObj(K_version :> JStr(StrV1))

IdParts == {<<0, 1>>, <<1, 0>>}
LineLows == {2, 3}
Readable(v) == [readable |-> TRUE, json |-> Some(v)]
NotJson == [readable |-> TRUE, json |-> None]
Unreadable == [readable |-> FALSE, json |-> None]
QuestContents ==
  {Readable(QuestDoc(tagged, id[1], id[2], TRUE)) : tagged \in BOOLEAN, id \in IdParts}
    \cup {Readable(QuestDoc(FALSE, 0, 1, FALSE)), NotJson, Unreadable}
HeaderContents ==
  {Readable(HeaderDoc(tagged, low)) : tagged \in BOOLEAN, low \in LineLows}
    \cup {Readable(JArr(<<>>)), NotJson}
EntryContents ==
  {Readable(EntryDoc(tagged, id[1], id[2])) : tagged \in BOOLEAN, id \in IdParts}
    \cup {Readable(JNum(0)), NotJson}
SettingsContents == {Readable(SettingsDoc), NotJson}

\* the nodes of a tree below its root directories
RECURSIVE CountNodes(_)
CountNodes(children) ==
  IF children = <<>> THEN 0
  ELSE 1 + CountNodes(Head(children).children) + CountNodes(Tail(children))
StrL1 == <<76, 49>>                             \* "L1"
\* the directories of the standard layout: Quests, QuestLines and the first
\* questline directory
LayoutDirs(source) ==
  (IF is_dir(source, <<StrQuests>>) THEN 1 ELSE 0)
    + (IF is_dir(source, <<StrQuestLines>>) THEN 1 ELSE 0)
    + (IF is_dir(source, <<StrQuestLines, StrL1>>) THEN 1 ELSE 0)
\* the entries written besides the standard layout
Written(source) == CountNodes(source.root) - LayoutDirs(source)

\* the tree with `node` appended to the listing of the directory at `path`
RECURSIVE AddChild(_, _, _)
AddChild(children, path, node) ==
  IF path = <<>> THEN Append(children, node)
  ELSE [i \in DOMAIN children |->
          IF children[i].name = Head(path)
          THEN [children[i] EXCEPT !.children = AddChild(@, Tail(path), node)]
          ELSE children[i]]

\* the name of the next entry of a listing: a letter, its position, an extension
EntryName(letter, listing, ext) == <<letter, 49 + Len(listing)>> \o ext
Listing(source, path) == Unwrap(NodeAt(source, path)).children

InitLoad ==
  /\ \E root_is_dir \in BOOLEAN, layout \in SUBSET {StrQuests, StrQuestLines} :
       /\ root_is_dir \/ layout = {}
       /\ fs = [root_is_dir |-> root_is_dir,
                root |-> (IF StrQuests \in layout
                          THEN <<DirNode(StrQuests, <<>>)>> ELSE <<>>)
                         \o (IF StrQuestLines \in layout
                             THEN <<DirNode(StrQuestLines, <<>>)>> ELSE <<>>)]
  /\ loadResult = NoLoad
  /\ db = [quests |-> EmptyMap]
  /\ impResult = NotCalled
  /\ call = NoCall

CanWrite == loadResult.kind = "NotLoaded" /\ fs.root_is_dir /\ Written(fs) < MaxEntries

Write(path, node) ==
  /\ fs' = [fs EXCEPT !.root = AddChild(@, path, node)]
  /\ UNCHANGED <<loadResult, db, impResult, call>>

WriteSettings(name, c) ==
  /\ CanWrite
  /\ ~IsSome(NodeAt(fs, <<name>>))
  /\ Write(<<>>, FileNode(name, c.readable, c.json))

WriteQuestFile(c) ==
  /\ CanWrite
  /\ is_dir(fs, <<StrQuests>>)
  /\ Write(<<StrQuests>>,
           FileNode(EntryName(113, Listing(fs, <<StrQuests>>), StrDotJson),
                    c.readable, c.json))

\* a file inside Quests/ whose name does not end with ".json"
WriteQuestNote ==
  /\ CanWrite
  /\ is_dir(fs, <<StrQuests>>)
  /\ Write(<<StrQuests>>,
           FileNode(EntryName(113, Listing(fs, <<StrQuests>>), StrDotTxt), TRUE, None))

\* a directory inside Quests/ whose name ends with ".json"
MakeQuestSubdir ==
  /\ CanWrite
  /\ is_dir(fs, <<StrQuests>>)
  /\ Write(<<StrQuests>>,
           DirNode(EntryName(113, Listing(fs, <<StrQuests>>), StrDotJson), <<>>))

MakeLineDir ==
  /\ CanWrite
  /\ is_dir(fs, <<StrQuestLines>>)
  /\ Write(<<StrQuestLines>>,
           DirNode(EntryName(76, Listing(fs, <<StrQuestLines>>), <<>>), <<>>))

\* a plain file directly inside QuestLines/
WriteStrayLineFile ==
  /\ CanWrite
  /\ is_dir(fs, <<StrQuestLines>>)
  /\ Write(<<StrQuestLines>>,
           FileNode(EntryName(102, Listing(fs, <<StrQuestLines>>), StrDotJson),
                    TRUE, None))

WriteHeader(d, c) ==
  /\ CanWrite
  /\ is_dir(fs, <<StrQuestLines, d>>)
  /\ ~IsSome(NodeAt(fs, <<StrQuestLines, d, StrQuestLineJson>>))
  /\ Write(<<StrQuestLines, d>>, FileNode(StrQuestLineJson, c.readable, c.json))

WriteEntry(d, c) ==
  /\ CanWrite
  /\ is_dir(fs, <<StrQuestLines, d>>)
  /\ Write(<<StrQuestLines, d>>,
           FileNode(EntryName(101, Listing(fs, <<StrQuestLines, d>>), StrDotJson),
                    c.readable, c.json))

\* a file inside a questline directory whose name does not end with ".json"
WriteLineNote(d) ==
  /\ CanWrite
  /\ is_dir(fs, <<StrQuestLines, d>>)
  /\ Write(<<StrQuestLines, d>>,
           FileNode(EntryName(101, Listing(fs, <<StrQuestLines, d>>), StrDotTxt),
                    TRUE, None))

\* one call of parse_default_quests_dir_from_source, for every iteration
\* order of the questlines HashMap
Load ==
  /\ loadResult.kind = "NotLoaded"
  /\ \E parsed \in {ParseAll(fs)} :
       \E order \in LineOrders(parsed) :
         loadResult' = AssembleDatabase(parsed, order)
  /\ UNCHANGED <<fs, db, impResult, call>>

LineDirs == IF is_dir(fs, <<StrQuestLines>>) THEN Range(list_dir(fs, <<StrQuestLines>>)) ELSE {}

NextLoad ==
  \/ \E name \in {StrQuestSettingsJson, StrQuestSettings}, c \in SettingsContents :
       WriteSettings(name, c)
  \/ \E c \in QuestContents : WriteQuestFile(c)
  \/ WriteQuestNote
  \/ MakeQuestSubdir
  \/ MakeLineDir
  \/ WriteStrayLineFile
  \/ \E d \in LineDirs, c \in HeaderContents : WriteHeader(d, c)
  \/ \E d \in LineDirs, c \in EntryContents : WriteEntry(d, c)
  \/ \E d \in LineDirs : WriteLineNote(d)
  \/ Load

SpecLoad == InitLoad /\ [][NextLoad]_vars

(***************************************************************************)
(* The questlines of a complete tree: the quests exist, one or two         *)
(* questline directories have their header, and entry files are added to   *)
(* the directories in any order.                                           *)
(***************************************************************************)
MaxPlaced == 3     \* entry files added to the questline directories
StrL2 == <<76, 50>>                             \* "L2"
\* ids whose order as u64 differs from their order as signed parts
PlacedIds == {<<0, 1>>, <<1, 0>>, <<0 - 1, 0>>}
PlacedContents ==
  {Readable(EntryDoc(FALSE, id[1], id[2])) : id \in PlacedIds}
    \cup {Readable(EntryDoc(TRUE, 0, 1)), NotJson}
\* headers: with both id fields, with the low field only, with neither
FirstHeaders == {HeaderDoc(FALSE, 2), JObj(EmptyMap)}
SecondHeaders ==
  {HeaderDoc(FALSE, 2), HeaderDoc(TRUE, 2), HeaderDoc(FALSE, 3),
   JObj(K_questLineIDLow :> JNum(0))}
QuestFileOf(n, high, low) ==
  FileNode(<<113, 48 + n>> \o StrDotJson, TRUE, Some(QuestDoc(FALSE, high, low, TRUE)))
LineDirOf(name, header) ==
  DirNode(name, <<FileNode(StrQuestLineJson, TRUE, Some(header))>>)

InitLine ==
  /\ \E first \in FirstHeaders, second \in {None} \cup {Some(h) : h \in SecondHeaders} :
       fs = [root_is_dir |-> TRUE,
             root |-> <<DirNode(StrQuests,
                                <<QuestFileOf(1, 0, 1), QuestFileOf(2, 1, 0),
                                  QuestFileOf(3, 0 - 1, 0)>>),
                        DirNode(StrQuestLines,
                                <<LineDirOf(StrL1, first)>>
                                  \o (IF IsSome(second)
                                      THEN <<LineDirOf(StrL2, Unwrap(second))>>
                                      ELSE <<>>))>>]
  /\ loadResult = NoLoad
  /\ db = [quests |-> EmptyMap]
  /\ impResult = NotCalled
  /\ call = NoCall

\* the files of the questline directories besides their headers
Placed ==
  SumOver([i \in DOMAIN Listing(fs, <<StrQuestLines>>) |->
             Len(Listing(fs, <<StrQuestLines>>)[i].children) - 1],
          DOMAIN Listing(fs, <<StrQuestLines>>))

\* one more entry file at the end of the listing of a questline directory
PlaceEntry(d, c) ==
  /\ loadResult.kind = "NotLoaded"
  /\ Placed < MaxPlaced
  /\ Write(<<StrQuestLines, d>>,
           FileNode(EntryName(101, Listing(fs, <<StrQuestLines, d>>), StrDotJson),
                    c.readable, c.json))

NextLine ==
  \/ \E d \in LineDirs, c \in PlacedContents : PlaceEntry(d, c)
  \/ Load

SpecLine == InitLine /\ [][NextLine]_vars

(***************************************************************************)
(* One quest document given to both quest loaders: the per-file parser     *)
(* (parse_quest_from_reader) and the conversion of the database loader     *)
(* (serde_json::from_str::<RawQuest>, then Quest::from_raw).               *)
(***************************************************************************)
MaxRefs == 2       \* length of each reference list of a quest document
RefIds == {1, 2}
StrAND == <<65, 78, 68>>                  \* "AND"
Strlxor == <<120, 111, 114>>              \* "xor"
StrOne_Of == <<79, 110, 101, 95, 79, 102>>   \* "One_Of"
Strany == <<97, 110, 121>>                \* "any"
StrOther == <<111, 116, 104, 101, 114>>   \* "other"
Logics == {Some(StrAND), Some(Strlxor), Some(StrOne_Of), Some(Strany), Some(StrOR)}
Flags ==
  {Some(JBool(TRUE)), Some(JBool(FALSE)), Some(JNum(1)), Some(JNum(0)),
   Some(JStr(<<49>>)), Some(JStr(<<48>>))}

\* a field that is written when it has a value
Field(k, type_id, tagged, opt) ==
  IF IsSome(opt) THEN Key(k, type_id, tagged) :> Unwrap(opt) ELSE EmptyMap

\* the inner properties object
InnerDoc(tagged, named, logic, flag) ==
  JObj(Field(K_name, TagString, tagged, IF named THEN Some(JStr(StrQ)) ELSE None)
       @@ Field(K_questLogic, TagString, tagged,
                IF IsSome(logic) THEN Some(JStr(Unwrap(logic))) ELSE None)
       @@ Field(K_isMain, <<49>>, tagged, flag))

\* a reference to the quest with the given low part
RefDoc(tagged, low) ==
  JObj(Key(K_questIDHigh, TagInt, tagged) :> JNum(0)
       @@ Key(K_questIDLow, TagInt, tagged) :> JNum(low))

\* a reference list: an array, or a map keyed by the indices "0", "1", ...
RefsDoc(tagged, form, lows) ==
  IF form = "arr" THEN Some(JArr([i \in DOMAIN lows |-> RefDoc(tagged, lows[i])]))
  ELSE IF lows = <<>> THEN None
  ELSE Some(JObj([k \in {Key(<<47 + i>>, TagCompound, tagged) : i \in DOMAIN lows}
                    |-> RefDoc(tagged, lows[k[1] - 47])]))

\* a quest file; `props` says where the inner properties object is
FullQuestDoc(in) ==
  JObj(Key(K_questIDHigh, TagInt, in.tagged) :> JNum(0)
       @@ Key(K_questIDLow, TagInt, in.tagged) :> JNum(3)
       @@ Field(K_properties, TagCompound, in.tagged,
                IF in.props = "none" THEN None
                ELSE Some(JObj(Key(IF in.props = "bq" THEN K_betterquesting
                                   ELSE StrOther, TagCompound, in.tagged)
                               :> InnerDoc(in.tagged, in.named, in.logic, in.flag))))
       @@ Field(K_preRequisites, <<57>>, in.tagged,
                RefsDoc(in.tagged, in.form, in.pre))
       @@ Field(K_optionalPreRequisites, <<57>>, in.tagged,
                RefsDoc(in.tagged, in.form, in.opt)))

\* the inner objects: one logic or one flag at a time
Inners ==
  {[named |-> named, logic |-> logic, flag |-> None] :
     named \in BOOLEAN, logic \in Logics \cup {None}}
  \cup {[named |-> named, logic |-> None, flag |-> flag] :
          named \in BOOLEAN, flag \in Flags}

QuestInputs ==
  {[tagged |-> tagged, props |-> props, named |-> inner.named,
    logic |-> inner.logic, flag |-> inner.flag,
    form |-> form, pre |-> pre, opt |-> opt] :
     tagged \in BOOLEAN, props \in {"bq", "other"}, inner \in Inners,
     form \in {"arr", "obj"},
     pre \in SeqsUpTo(RefIds, MaxRefs), opt \in SeqsUpTo(RefIds, MaxRefs)}
  \cup
  {[tagged |-> tagged, props |-> "none", named |-> FALSE,
    logic |-> None, flag |-> None,
    form |-> form, pre |-> pre, opt |-> opt] :
     tagged \in BOOLEAN, form \in {"arr", "obj"},
     pre \in SeqsUpTo(RefIds, MaxRefs), opt \in SeqsUpTo(RefIds, MaxRefs)}

InitQuest ==
  /\ \E in \in QuestInputs :
       call = [fn |-> "quest", in |-> in, doc |-> FullQuestDoc(in),
               parsed |-> None, converted |-> None]
  /\ fs = NoFs
  /\ loadResult = NoLoad
  /\ db = [quests |-> EmptyMap]
  /\ impResult = NotCalled

\* parse_quest_from_reader on the text of the document
ParseQuest ==
  /\ call.parsed = None
  /\ call' = [call EXCEPT !.parsed = Some(parse_quest_from_reader(call.doc))]
  /\ UNCHANGED <<fs, loadResult, db, impResult>>

\* the two statements of the database loader for one quest file, for every
\* iteration order of the reference maps
ConvertRaw ==
  /\ call.converted = None
  /\ \E raw \in {DeRawQuest(call.doc)} :
       IF ~raw.ok THEN call' = [call EXCEPT !.converted = Some(raw)]
       ELSE \E pre_order \in HashOrders(raw.val.pre_requisites),
               opt_order \in HashOrders(raw.val.optional_pre_requisites) :
              call' = [call EXCEPT !.converted =
                         Some(from_raw(raw.val, pre_order, opt_order))]
  /\ UNCHANGED <<fs, loadResult, db, impResult>>

NextQuest == ParseQuest \/ ConvertRaw

SpecQuest == InitQuest /\ [][NextQuest]_vars

(***************************************************************************)
(* Properties of the loader, checked under SpecLoad.                       *)
(***************************************************************************)
Loaded == loadResult.kind # "NotLoaded"
LoadedDb == Unwrap(loadResult.db)

\* C1: every database returned by a successful load has referential
\* integrity: each entry of each questline names a key of `quests`, and each
\* key of `quests` and of `questlines` is the id of the value stored under it.
C1_ReferentialIntegrity ==
  loadResult.kind = "Ok" =>
    /\ \A ql \in DOMAIN LoadedDb.questlines :
         /\ LoadedDb.questlines[ql].id = ql
         /\ \A i \in DOMAIN LoadedDb.questlines[ql].entries :
              LoadedDb.questlines[ql].entries[i].quest_id \in DOMAIN LoadedDb.quests
    /\ \A q \in DOMAIN LoadedDb.quests : LoadedDb.quests[q].id = q

\* a successful load of a questline with an entry
C1_Witness ==
  /\ loadResult.kind = "Ok"
  /\ \E ql \in DOMAIN LoadedDb.questlines : LoadedDb.questlines[ql].entries # <<>>

\* the (questline, quest) pairs of the entries that name no loaded quest
Dangling(parsed) ==
  UNION {{<<as_u64(ql), parsed.questlines[ql].entries[i].quest_id>> :
            i \in {j \in DOMAIN parsed.questlines[ql].entries :
                     parsed.questlines[ql].entries[j].quest_id
                       \notin DOMAIN parsed.quests}} :
         ql \in DOMAIN parsed.questlines}

\* C2: when every file parses and no ids collide, and a questline with a
\* header has an entry that names no loaded quest, the load fails with
\* MissingQuestReference naming such a questline and a dangling id of it.
C2_MissingReferenceReported ==
  Loaded =>
    LET parsed == ParseAll(fs)
    IN (parsed.ok /\ Dangling(parsed.val) # {}) =>
         /\ loadResult.kind = "MissingQuestReference"
         /\ <<loadResult.questline, loadResult.quest_id>> \in Dangling(parsed.val)
         /\ loadResult.db = None

\* a failed load of a tree with a loaded quest and a dangling entry
C2_Witness ==
  /\ loadResult.kind = "MissingQuestReference"
  /\ ParseAll(fs).ok
  /\ DOMAIN ParseAll(fs).val.quests # {}

\* the .json files of Quests/, as positions of its listing
QuestFiles ==
  IF is_dir(fs, <<StrQuests>>)
  THEN {i \in DOMAIN Listing(fs, <<StrQuests>>) :
          /\ ~Listing(fs, <<StrQuests>>)[i].is_dir
          /\ EndsWith(Listing(fs, <<StrQuests>>)[i].name, StrDotJson)}
  ELSE {}
QuestFileNode(i) == Listing(fs, <<StrQuests>>)[i]
\* the ids a quest file declares, with or without NBT tags on the keys
DeclaredId(node) ==
  LET m == Unwrap(node.json).m
      high == IF K_questIDHigh \in DOMAIN m THEN m[K_questIDHigh].n
              ELSE m[Key(K_questIDHigh, TagInt, TRUE)].n
      low == IF K_questIDLow \in DOMAIN m THEN m[K_questIDLow].n
             ELSE m[Key(K_questIDLow, TagInt, TRUE)].n
  IN from_parts(high, low)
\* the tree of the success test: one tagged quest (0,1), one questline with a
\* tagged header and one tagged entry referencing (0,1)
IsSuccessFixture ==
  /\ fs.root_is_dir
  /\ Len(fs.root) = 2
  /\ is_dir(fs, <<StrQuests>>) /\ is_dir(fs, <<StrQuestLines>>)
  /\ Len(Listing(fs, <<StrQuests>>)) = 1
  /\ QuestFiles = {1}
  /\ QuestFileNode(1).json = Some(QuestDoc(TRUE, 0, 1, TRUE))
  /\ Len(Listing(fs, <<StrQuestLines>>)) = 1
  /\ LET line == Listing(fs, <<StrQuestLines>>)[1]
     IN /\ line.is_dir
        /\ Len(line.children) = 2
        /\ \E i, j \in 1..2 :
             /\ line.children[i].name = StrQuestLineJson
             /\ line.children[i].json \in {Some(HeaderDoc(TRUE, low)) : low \in LineLows}
             /\ line.children[j].name # StrQuestLineJson
             /\ line.children[j].json = Some(EntryDoc(TRUE, 0, 1))

\* C3: the loader keys each quest by from_parts of the ids its file declares,
\* also when the keys carry NBT tags; the tree of the success test loads,
\* `quests` contains (0,1) and the questline has exactly one entry.
C3_KeyedByDeclaredId ==
  /\ loadResult.kind = "Ok" =>
       \A i \in QuestFiles : DeclaredId(QuestFileNode(i)) \in DOMAIN LoadedDb.quests
  /\ (Loaded /\ IsSuccessFixture) =>
       /\ loadResult.kind = "Ok"
       /\ from_parts(0, 1) \in DOMAIN LoadedDb.quests
       /\ \A ql \in DOMAIN LoadedDb.questlines :
            Len(LoadedDb.questlines[ql].entries) = 1

\* what loading each .json file of Quests/ alone yields
QuestFileResults ==
  [i \in QuestFiles |-> LoadQuestFile(fs, <<StrQuests, QuestFileNode(i).name>>)]
\* the pairs of quest files that each load and yield the same id
SameIdPairs(results) ==
  {pair \in (DOMAIN results) \X (DOMAIN results) :
     /\ pair[1] < pair[2]
     /\ results[pair[1]].ok /\ results[pair[2]].ok
     /\ results[pair[1]].val.id = results[pair[2]].val.id}
\* the first file, in list_dir order, that repeats the id of an earlier one
FirstRepeat(pairs) ==
  CHOOSE j \in {pair[2] : pair \in pairs} : \A pair \in pairs : j <= pair[2]

\* C4 as stated: two quest files that load and yield the same id make the
\* load fail with DuplicateQuestId carrying the path of the second of them.
C4_DuplicateAlwaysReported ==
  Loaded =>
    LET pairs == SameIdPairs(QuestFileResults)
    IN pairs # {} =>
         /\ loadResult.kind = "DuplicateQuestId"
         /\ \E pair \in pairs :
              loadResult.path = <<StrQuests, QuestFileNode(pair[2]).name>>

\* C4: two quest files that load and yield the same id never give a database;
\* when the settings file and every quest file listed before the first repeat
\* load, the load fails with DuplicateQuestId carrying the path of that repeat.
C4_DuplicateReported ==
  Loaded =>
    LET results == QuestFileResults
        pairs == SameIdPairs(results)
        second == FirstRepeat(pairs)
    IN pairs # {} =>
         /\ loadResult.kind # "Ok" /\ loadResult.db = None
         /\ (/\ LoadSettings(fs).ok
             /\ \A k \in QuestFiles : k < second => results[k].ok)
            => /\ loadResult.kind = "DuplicateQuestId"
               /\ loadResult.path = <<StrQuests, QuestFileNode(second).name>>

\* a duplicate reported for a file that is not the last of the listing
C4_Witness ==
  /\ loadResult.kind = "DuplicateQuestId"
  /\ LET pairs == SameIdPairs(QuestFileResults)
     IN /\ pairs # {}
        /\ loadResult.path = <<StrQuests, QuestFileNode(FirstRepeat(pairs)).name>>
        /\ FirstRepeat(pairs) < Len(Listing(fs, <<StrQuests>>))

IsNotJson(node) == ~node.is_dir /\ node.readable /\ node.json = None
\* some file the loader reads holds text that is not JSON
InvalidJsonPresent ==
  \/ /\ is_file(fs, <<StrQuestSettingsJson>>)
     /\ IsNotJson(Unwrap(NodeAt(fs, <<StrQuestSettingsJson>>)))
  \/ /\ ~is_file(fs, <<StrQuestSettingsJson>>)
     /\ is_file(fs, <<StrQuestSettings>>)
     /\ IsNotJson(Unwrap(NodeAt(fs, <<StrQuestSettings>>)))
  \/ \E i \in QuestFiles : IsNotJson(QuestFileNode(i))
  \/ /\ is_dir(fs, <<StrQuestLines>>)
     /\ \E i \in DOMAIN Listing(fs, <<StrQuestLines>>) :
          LET line == Listing(fs, <<StrQuestLines>>)[i]
          IN /\ line.is_dir
             /\ \E j \in DOMAIN line.children :
                  /\ IsNotJson(line.children[j])
                  /\ EndsWith(line.children[j].name, StrDotJson)

\* C5: when a file the loader reads is not valid JSON the load returns an
\* error and no database, whatever was loaded before it.
C5_NoPartialDatabase ==
  /\ (Loaded /\ InvalidJsonPresent) => loadResult.kind # "Ok"
  /\ (Loaded /\ loadResult.kind # "Ok") => loadResult.db = None

\* a JSON error after the first quest file was loaded
C5_Witness ==
  /\ loadResult.kind = "Json"
  /\ InvalidJsonPresent
  /\ 1 \in QuestFiles
  /\ QuestFileResults[1].ok

(***************************************************************************)
(* Properties of the analyzer, checked under SpecImp.                      *)
(***************************************************************************)
Strxor == <<120, 111, 114>>                      \* "xor"
Lower(str) == [i \in DOMAIN str |-> to_ascii_lowercase(str[i])]
\* quest_logic is "XOR" in some letter case
LogicIsXor(quest) ==
  /\ quest.properties # None
  /\ Unwrap(quest.properties).quest_logic # None
  /\ Lower(Unwrap(Unwrap(quest.properties).quest_logic)) = Strxor
\* the required list: the explicit one, else the generic one
ListedRequired(quest) ==
  IF quest.required_prerequisites = <<>> THEN quest.prerequisites
  ELSE quest.required_prerequisites
ReqSet(quest) == IF LogicIsXor(quest) THEN {} ELSE Range(ListedRequired(quest))
OptSet(quest) ==
  IF LogicIsXor(quest) THEN {}
  ELSE Range(quest.optional_prerequisites) \ Range(ListedRequired(quest))
\* the prerequisite graph: q -> p for the listed prerequisites that are quests
Edges(quests) ==
  {e \in (DOMAIN quests) \X (DOMAIN quests) :
     e[2] \in ReqSet(quests[e[1]]) \cup OptSet(quests[e[1]])}
RECURSIVE Reach(_, _, _)
Reach(E, S, n) ==
  IF n = 0 THEN S
  ELSE Reach(E, S \cup {e[2] : e \in {e \in E : e[1] \in S}}, n - 1)
HasCycle(quests) ==
  \E q \in DOMAIN quests :
    q \in Reach(Edges(quests), {e[2] : e \in {e \in Edges(quests) : e[1] = q}},
                Cardinality(DOMAIN quests))

Called == impResult.called
AlphaOutside(alpha) ==
  \/ alpha.den = 0
  \/ alpha.num < 0
  \/ alpha.num > alpha.den

\* C6: for alpha in [0,1] the result is CycleDetected exactly when the
\* prerequisite graph has a directed cycle, and Ok otherwise.
C6_CycleIffCyclic ==
  (Called /\ ~AlphaOutside(impResult.alpha)) =>
    /\ impResult.out.kind = "CycleDetected" <=> HasCycle(db.quests)
    /\ ~HasCycle(db.quests) => impResult.out.kind = "Ok"

\* a cycle of two quests is reported
C6_Witness ==
  /\ Called
  /\ impResult.out.kind = "CycleDetected"
  /\ Len(impResult.out.cycle) = 2
  /\ HasCycle(db.quests)

\* C7: every alpha outside [0,1] (negative, above 1, NaN) gives
\* AlphaOutOfRange(alpha), also when the prerequisite graph is cyclic.
C7_AlphaOutOfRange ==
  (Called /\ AlphaOutside(impResult.alpha)) =>
    /\ impResult.out.kind = "AlphaOutOfRange"
    /\ impResult.out.value = Some(impResult.alpha)

\* NaN is rejected on a cyclic database
C7_Witness ==
  /\ Called
  /\ IsNaN(impResult.alpha)
  /\ HasCycle(db.quests)
  /\ impResult.out.kind = "AlphaOutOfRange"

REq(x, y) == x.den # 0 /\ y.den # 0 /\ x.num * y.den = y.num * x.den
\* the weight of the edge from the prerequisite q to its dependent d
Weight(quests, q, d) ==
  RAdd(IF q \in ReqSet(quests[d]) THEN One ELSE Zero,
       IF q \in OptSet(quests[d])
       THEN Rat(1, Cardinality(OptSet(quests[d]))) ELSE Zero)
RECURSIVE RSum(_, _)
RSum(f, keys) ==
  IF keys = {} THEN Zero
  ELSE LET k == CHOOSE k \in keys : TRUE IN RAdd(f[k], RSum(f, keys \ {k}))
\* raw(q): the sum of the weights of the edges from q to its dependents
Raw(quests, q) == RSum([d \in DOMAIN quests |-> Weight(quests, q, d)], DOMAIN quests)
Expected(quests, q, alpha) ==
  RAdd(Raw(quests, q),
       RMul(alpha, RSum([d \in DOMAIN quests |->
                           RMul(Weight(quests, q, d), Raw(quests, d))],
                        DOMAIN quests)))
\* quests 1, 2, 3 where 2 requires 1 and 3 requires 2
IsChain(quests) ==
  /\ DOMAIN quests = {1, 2, 3}
  /\ \A q \in DOMAIN quests :
       ~LogicIsXor(quests[q]) /\ quests[q].optional_prerequisites = <<>>
  /\ ListedRequired(quests[1]) = <<>>
  /\ ListedRequired(quests[2]) = <<1>>
  /\ ListedRequired(quests[3]) = <<2>>
PlainCall == Called /\ ~impResult.use_log /\ ~impResult.normalize

C9_OneEntryPerQuest ==
  (Called /\ impResult.out.kind = "Ok") =>
    DOMAIN impResult.out.scores = DOMAIN db.quests

\* success with an XOR quest and a prerequisite that is no quest
C9_Witness ==
  /\ Called
  /\ impResult.out.kind = "Ok"
  /\ \E q \in DOMAIN db.quests : LogicIsXor(db.quests[q])
  /\ \E q \in DOMAIN db.quests :
       /\ ~LogicIsXor(db.quests[q])
       /\ \E i \in DOMAIN ListedRequired(db.quests[q]) :
            ListedRequired(db.quests[q])[i] \notin DOMAIN db.quests
  /\ DOMAIN impResult.out.scores # {}

\* the database with the three prerequisite lists of q emptied
Cleared(quests, q) ==
  [quests EXCEPT ![q].prerequisites = <<>>,
                 ![q].required_prerequisites = <<>>,
                 ![q].optional_prerequisites = <<>>]

\* C10: a quest whose quest_logic is "XOR" in any letter case gives the same
\* scores and the same cycle/no-cycle outcome as the database in which its
\* required, optional and generic prerequisite lists are empty.
C10_XorSuppression ==
  Called =>
    \A q \in DOMAIN db.quests :
      LogicIsXor(db.quests[q]) =>
        \A order \in Perms(DOMAIN db.quests) :
          LET r == compute_importance_scores(Cleared(db.quests, q), impResult.alpha,
                     impResult.use_log, impResult.normalize, order)
          IN /\ r.kind = impResult.out.kind
             /\ r.scores = impResult.out.scores

\* an "xOr" quest that lists itself is analysed without a cycle
C10_Witness ==
  /\ Called
  /\ impResult.out.kind = "Ok"
  /\ \E q \in DOMAIN db.quests :
       /\ LogicIsXor(db.quests[q])
       /\ Unwrap(db.quests[q].properties).quest_logic = Some(StrxOr)
       /\ q \in Range(ListedRequired(db.quests[q]))

\* the weights of the edges p -> q of a dependents map, in push order
EdgeWeights(dependents, p, q) ==
  IF p \in DOMAIN dependents
  THEN [i \in DOMAIN SelectSeq(dependents[p], LAMBDA e : e[1] = q) |->
          SelectSeq(dependents[p], LAMBDA e : e[1] = q)[i][2]]
  ELSE <<>>
\* every id a prerequisite list of the database names
ListedIds(quests) ==
  UNION {Range(quests[q].prerequisites) \cup Range(quests[q].required_prerequisites)
           \cup Range(quests[q].optional_prerequisites) : q \in DOMAIN quests}
GraphBuilt == Called /\ ~AlphaOutside(impResult.alpha)

\* C11: for a non-XOR quest q with O its optional prerequisites without
\* repeats and without its required ones, each p in O gets exactly one edge
\* p -> q of weight 1/|O| (the optional edges into q sum to 1), each required
\* prerequisite gets exactly one edge of weight 1, and nothing else gets an
\* edge into q.
C11_OptionalSplitting ==
  GraphBuilt =>
    \A order \in Perms(DOMAIN db.quests) :
      \A q \in DOMAIN db.quests :
        ~LogicIsXor(db.quests[q]) =>
          /\ \A p \in ListedIds(db.quests) \cup DOMAIN db.quests :
               EdgeWeights(BuildGraph(db.quests, order, EmptyGraph).dependents, p, q)
                 = IF p \in ReqSet(db.quests[q]) THEN <<One>>
                   ELSE IF p \in OptSet(db.quests[q])
                   THEN <<Rat(1, Cardinality(OptSet(db.quests[q])))>>
                   ELSE <<>>
          /\ OptSet(db.quests[q]) # {} =>
               RSum([p \in OptSet(db.quests[q]) |->
                       EdgeWeights(BuildGraph(db.quests, order, EmptyGraph).dependents,
                                   p, q)[1]],
                    OptSet(db.quests[q])) = One

\* a quest with two optional prerequisites, each weighing 1/2
C11_Witness ==
  /\ GraphBuilt
  /\ \E q \in DOMAIN db.quests :
       /\ ~LogicIsXor(db.quests[q])
       /\ Cardinality(OptSet(db.quests[q])) = 2
       /\ \A order \in Perms(DOMAIN db.quests), p \in OptSet(db.quests[q]) :
            EdgeWeights(BuildGraph(db.quests, order, EmptyGraph).dependents, p, q)
              = <<Rat(1, 2)>>

\* a returned score q / 1.000000001^eps lies in [0, 1)
InUnit(s) ==
  /\ RLe(Zero, s.q)
  /\ IF s.eps = 0 THEN RLt(s.q, One) ELSE RLe(s.q, One)
\* the keys holding the maximum of a returned score map (one eps throughout)
ArgMax(scores) ==
  {q \in DOMAIN scores : \A k \in DOMAIN scores : RLe(scores[k].q, scores[q].q)}
\* the result of the same call with normalize = false
Unnormalized(order) ==
  compute_importance_scores(db.quests, impResult.alpha, impResult.use_log, FALSE, order)
NormalizedCall == Called /\ impResult.normalize /\ impResult.out.kind = "Ok"

\* C12: with normalize = true and success every returned score lies in
\* [0, 1) and the quests holding the maximum are those of the result for
\* normalize = false; when all scores are zero or the database is empty the
\* scores are returned unchanged.
C12_Normalization ==
  NormalizedCall =>
    \A order \in Perms(DOMAIN db.quests) :
      /\ Unnormalized(order).kind = "Ok"
      /\ \A q \in DOMAIN impResult.out.scores : InUnit(impResult.out.scores[q])
      /\ ArgMax(impResult.out.scores) = ArgMax(Unnormalized(order).scores)
      /\ (\A q \in DOMAIN db.quests : Unnormalized(order).scores[q].q = Zero) =>
           impResult.out.scores = Unnormalized(order).scores

\* a normalized result with a maximum and a smaller positive score
C12_Witness ==
  /\ NormalizedCall
  /\ \E q, k \in DOMAIN db.quests :
       /\ impResult.out.scores[q] = [q |-> One, eps |-> 1]
       /\ RLt(Zero, impResult.out.scores[k].q)
       /\ RLt(impResult.out.scores[k].q, One)
       /\ ArgMax(impResult.out.scores) = {q}

\* C14: for fixed (db, alpha, use_log, normalize) the result of
\* compute_importance_scores, the score map or the error with the id sequence
\* inside CycleDetected, is the same for every iteration order of the quest map.
C14_OrderIndependent ==
  Called =>
    \A order \in Perms(DOMAIN db.quests) :
      compute_importance_scores(db.quests, impResult.alpha, impResult.use_log,
                                impResult.normalize, order) = impResult.out

(***************************************************************************)
(* Properties of order_prereqs_for_quest, checked under SpecOrder.         *)
(***************************************************************************)
Ordered == call.ret # None
\* the list `ps` in the order perm
Permuted(ps, perm) == [i \in DOMAIN ps |-> ps[perm[i]]]
\* the pair a may stand before the pair b: a higher score, or the same score
\* and no greater id; a NaN score is ordered against no other score
InOrder(a, b) ==
  \/ IsNaN(a[2]) \/ IsNaN(b[2])
  \/ RLt(b[2], a[2])
  \/ a[2] = b[2] /\ as_u64(a[1]) <= as_u64(b[1])

\* C13: order_prereqs_for_quest returns one (id, score) pair per element of
\* quest.prerequisites, a permutation of the list with a missing score read
\* as 0, ordered by score descending and by id ascending among equal scores,
\* and returns the same for every order of the prerequisites list.
C13_OrderedPrereqs ==
  Ordered =>
    /\ \E perm \in Perms(DOMAIN call.quest.prerequisites) :
         Unwrap(call.ret) =
           [i \in DOMAIN call.quest.prerequisites |->
              <<call.quest.prerequisites[perm[i]],
                ScoreOrZero(call.scores, call.quest.prerequisites[perm[i]])>>]
    /\ \A i, j \in DOMAIN Unwrap(call.ret) :
         i < j => InOrder(Unwrap(call.ret)[i], Unwrap(call.ret)[j])
    /\ \A perm \in Perms(DOMAIN call.quest.prerequisites) :
         order_prereqs_for_quest(
           [call.quest EXCEPT !.prerequisites = Permuted(@, perm)], call.scores)
           = Unwrap(call.ret)

(***************************************************************************)
(* Properties of the normalizer, checked under SpecNorm.                   *)
(***************************************************************************)
Normalized == call.ret # None
Colons(k) == {i \in DOMAIN k : k[i] = 58}
HasColon(k) == Colons(k) # {}
\* the key before its last ':'; the key itself when it has none
BeforeLastColon(k) ==
  IF HasColon(k)
  THEN SubSeq(k, 1, (CHOOSE i \in Colons(k) : \A j \in Colons(k) : j <= i) - 1)
  ELSE k
\* the keys of an object that strip to `key`
Sources(m, key) == {k \in DOMAIN m : BeforeLastColon(k) = key}

\* C15: normalize_value(normalize_value(v)) = normalize_value(v) for every
\* JSON value v, also when an object key holds more than one ':'.
C15_Idempotent ==
  (Normalized /\ call.normalized) => Unwrap(call.ret) = call.v

\* `out` is `v` with every tagged key cut before its last ':', at every
\* depth, and nothing else changed; of the keys that strip to one key, one
\* value is found under it
RECURSIVE Stripped(_, _)
Stripped(v, out) ==
  CASE v.t = "obj" ->
         /\ out.t = "obj"
         /\ DOMAIN out.m = {BeforeLastColon(k) : k \in DOMAIN v.m}
         /\ \A key \in DOMAIN out.m :
              \E k \in Sources(v.m, key) : Stripped(v.m[k], out.m[key])
    [] v.t = "arr" ->
         /\ out.t = "arr"
         /\ Len(out.a) = Len(v.a)
         /\ \A i \in DOMAIN v.a : Stripped(v.a[i], out.a[i])
    [] OTHER -> out = v

\* C16: normalize_value replaces, at every nesting depth, inside objects and
\* inside array elements, each object key containing ':' by its part before
\* the last ':', leaves the other keys and every scalar unchanged.
C16_SuffixStripping ==
  Normalized => Stripped(call.v, Unwrap(call.ret))

\* inside an array element "a:b:8" becomes "a:b" and "a" stays
C16_Witness ==
  /\ Normalized
  /\ call.v.t = "arr" /\ Len(call.v.a) = 1
  /\ call.v.a[1].t = "obj"
  /\ DOMAIN call.v.a[1].m = {StrAB \o <<58, 56>>, StrA}
  /\ DOMAIN Unwrap(call.ret).a[1].m = {StrAB, StrA}
  /\ \A k \in DOMAIN call.v.a[1].m :
       Unwrap(call.ret).a[1].m[BeforeLastColon(k)] = call.v.a[1].m[k]

\* {"a:8": 1, "a:10": 2}
CollisionDoc ==
  JObj((StrA \o <<58, 56>>) :> JNum(1) @@ (StrA \o <<58, 49, 48>>) :> JNum(2))

\* C17: when two distinct keys of one object strip to the same key, both
\* values are kept, merged under that key into a sequence; {"a:8": 1,
\* "a:10": 2} normalizes to {"a": [1, 2]}.
C17_CollisionMerge ==
  (Normalized /\ call.v.t = "obj") =>
    /\ \A key \in {BeforeLastColon(k) : k \in DOMAIN call.v.m} :
         Cardinality(Sources(call.v.m, key)) > 1 =>
           /\ key \in DOMAIN Unwrap(call.ret).m
           /\ Unwrap(call.ret).m[key].t = "arr"
           /\ \A k \in Sources(call.v.m, key) :
                normalize_value(call.v.m[k]) \in Range(Unwrap(call.ret).m[key].a)
    /\ call.v = CollisionDoc =>
         Unwrap(call.ret) = JObj(StrA :> JArr(<<JNum(1), JNum(2)>>))

\* str::parse::<usize> succeeds on the key (a decimal index)
IsIndex(k) == k # <<>> /\ \A i \in DOMAIN k : k[i] \in 48..57

\* C18: normalize_value turns every non-empty object whose stripped keys all
\* parse as non-negative integers into the sequence of its values by
\* ascending index; {"0:10": {"id:8": "foo"}, "1:10": {"id:8": "bar"}}
\* normalizes to [{"id": "foo"}, {"id": "bar"}].
C18_NumericPromotion ==
  (Normalized /\ call.v.t = "obj" /\ DOMAIN call.v.m # {}
     /\ \A k \in DOMAIN call.v.m : IsIndex(BeforeLastColon(k))) =>
    /\ Unwrap(call.ret).t = "arr"
    /\ call.v = IndexMapDoc =>
         Unwrap(call.ret) = JArr(<<JObj(StrId :> JStr(StrFoo)),
                                   JObj(StrId :> JStr(StrBar))>>)

(***************************************************************************)
(* Properties of QuestId, checked under SpecId.                            *)
(***************************************************************************)
Made == call.id # None
\* the bit pattern of a signed half, as an unsigned number
Pattern(x) == IF x < 0 THEN x + HalfMod ELSE x

\* C19: from_parts(h, l).as_u64() has the bit pattern of h in its high half
\* and the bit pattern of l in its low half, with no bit of a negative l in
\* the high half; from_parts(-1, -1).as_u64() is all ones.
C19_PackedHalves ==
  Made =>
    /\ as_u64(Unwrap(call.id)) = Pattern(call.high) * HalfMod + Pattern(call.low)
    /\ as_u64(Unwrap(call.id)) \in 0..(IdMod - 1)
    /\ (call.high = 0 - 1 /\ call.low = 0 - 1) => as_u64(Unwrap(call.id)) = IdMod - 1

\* a non-negative high half with a negative low half
C19_Witness ==
  /\ Made
  /\ call.high = 1 /\ call.low = 0 - 1
  /\ as_u64(Unwrap(call.id)) = 2 * HalfMod - 1

\* C20: from_parts(h, l).high_part() = h, .low_part() = l, and from_u64 of
\* its as_u64 is the same id; distinct (h, l) never give equal ids.
C20_RoundTrip ==
  Made =>
    /\ high_part(Unwrap(call.id)) = call.high
    /\ low_part(Unwrap(call.id)) = call.low
    /\ call.back # None => Unwrap(call.back) = Unwrap(call.id)
    /\ \A h \in I32, l \in I32 :
         from_parts(h, l) = Unwrap(call.id) => h = call.high /\ l = call.low

\* the largest high half with the smallest low half, read back
C20_Witness ==
  /\ Made
  /\ call.back # None
  /\ call.high = I32Max /\ call.low = I32Min
  /\ high_part(Unwrap(call.back)) = I32Max
  /\ low_part(Unwrap(call.back)) = I32Min

(***************************************************************************)
(* Properties of the quest loaders, checked under SpecQuest.               *)
(***************************************************************************)
IdsOf(ids) == {as_u64(q) : q \in Range(ids)}
\* `ret` holds a returned Quest
ReturnedQuest(ret) == ret # None /\ Unwrap(ret).ok
SplitHolds(quest) ==
  /\ IdsOf(quest.required_prerequisites) \cap IdsOf(quest.optional_prerequisites) = {}
  /\ quest.prerequisites = quest.required_prerequisites

\* C21: in every Quest returned by either loader no id is both required and
\* optional, and `prerequisites` equals `required_prerequisites`.
C21_SplitInvariant ==
  /\ ReturnedQuest(call.parsed) => SplitHolds(Unwrap(call.parsed).val)
  /\ ReturnedQuest(call.converted) => SplitHolds(Unwrap(call.converted).val)

\* both loaders have split a list that shares an id with the optional list
C21_Witness ==
  /\ call.in.pre = <<1, 2>> /\ call.in.opt = <<2>>
  /\ ~call.in.tagged /\ call.in.named /\ call.in.form = "arr"
  /\ call.parsed # None /\ Unwrap(call.parsed).ok
  /\ call.converted # None /\ Unwrap(call.converted).ok
  /\ Unwrap(call.parsed).val.required_prerequisites = <<1>>
  /\ Unwrap(call.converted).val.optional_prerequisites = <<2>>

\* the logic of the document, when it has an inner properties object
DocLogic == IF call.in.props = "none" THEN None ELSE call.in.logic
\* the logic reads OR, ONE_OF, ANY or XOR in some letter case
Alternatives ==
  /\ DocLogic # None
  /\ \E u \in {StrOR, StrONE_OF, StrANY, StrXOR} :
       eq_ignore_ascii_case(Unwrap(DocLogic), u)
\* the split the rule gives for the lists all and optional
SplitRule(all, optional) ==
  IF optional # <<>>
  THEN [required |-> SelectSeq(all, LAMBDA q : \A i \in DOMAIN optional : optional[i] # q),
        optional |-> optional]
  ELSE IF Alternatives THEN [required |-> <<>>, optional |-> all]
  ELSE [required |-> all, optional |-> <<>>]
SplitOf(quest) ==
  [required |-> quest.required_prerequisites,
   optional |-> quest.optional_prerequisites]
\* the lists the conversion of the database loader can read: none under
\* tagged keys, the elements of an array in order, those of a map in any order
RawLists(lows) ==
  IF call.in.tagged THEN {<<>>}
  ELSE IF call.in.form = "arr" THEN {lows}
  ELSE {[i \in DOMAIN lows |-> lows[p[i]]] : p \in Perms(DOMAIN lows)}

\* C22: the lists of a returned Quest follow the split rule: a non-empty
\* optional list is kept and its ids are removed from the required list in
\* source order; else the logics OR, ONE_OF, ANY and XOR (in any case) make
\* every prerequisite optional; else every prerequisite is required.
C22_SplitRule ==
  /\ ReturnedQuest(call.parsed) =>
       SplitOf(Unwrap(call.parsed).val) = SplitRule(call.in.pre, call.in.opt)
  /\ ReturnedQuest(call.converted) =>
       \E all \in RawLists(call.in.pre), optional \in RawLists(call.in.opt) :
         SplitOf(Unwrap(call.converted).val) = SplitRule(all, optional)

\* a lower-case xor without an optional list makes both prerequisites optional
C22_Witness ==
  /\ call.in.logic = Some(Strlxor) /\ call.in.props = "bq" /\ call.in.named
  /\ ~call.in.tagged /\ call.in.form = "arr"
  /\ call.in.pre = <<2, 1>> /\ call.in.opt = <<>>
  /\ ReturnedQuest(call.parsed) /\ ReturnedQuest(call.converted)
  /\ Unwrap(call.parsed).val.optional_prerequisites = <<2, 1>>
  /\ Unwrap(call.converted).val.optional_prerequisites = <<2, 1>>
  /\ Unwrap(call.converted).val.required_prerequisites = <<>>

\* the document has an inner properties object, and it has no name
Nameless == call.in.props # "none" /\ ~call.in.named
Rejected(ret, kind) == ret # None => ~Unwrap(ret).ok /\ Unwrap(ret).err.kind = kind

\* C23: a document whose inner properties object has no `name` is rejected
\* with InvalidFormat by the per-file parser and by the database loader's
\* conversion.
C23_NamelessRejected ==
  Nameless => /\ Rejected(call.parsed, "InvalidFormat")
              /\ Rejected(call.converted, "InvalidFormat")

\* the value the document gives isMain reads as the boolean b
FlagReads(b) ==
  /\ call.in.props # "none" /\ call.in.named
  /\ call.in.flag \in IF b THEN {Some(JBool(TRUE)), Some(JNum(1)), Some(JStr(<<49>>))}
                       ELSE {Some(JBool(FALSE)), Some(JNum(0)), Some(JStr(<<48>>))}
LoadsAs(ret, b) ==
  ret # None =>
    /\ Unwrap(ret).ok
    /\ Unwrap(ret).val.properties # None
    /\ Unwrap(Unwrap(ret).val.properties).is_main = Some(b)

\* C24: isMain given as true, 1 or "1" loads as true and given as false, 0
\* or "0" loads as false, by the per-file parser and by the database
\* loader's conversion.
C24_BoolCoercion ==
  \A b \in BOOLEAN :
    FlagReads(b) => LoadsAs(call.parsed, b) /\ LoadsAs(call.converted, b)

(***************************************************************************)
(* Properties of the questlines of a loaded database.                      *)
(***************************************************************************)
\* a half of an id read from a normalized object: 0 when it is missing
HalfOf(m, key) == IF key \in DOMAIN m THEN Pattern(m[key].n) ELSE 0
\* the id the header of a questline directory yields
HeaderId(node) ==
  LET m == normalize_value(Unwrap(node.children[1].json)).m
  IN HalfOf(m, K_questLineIDHigh) * HalfMod + HalfOf(m, K_questLineIDLow)
\* the ids of the entry files of a questline directory, in the order of its
\* listing
ListedEntryIds(node) ==
  [i \in 1..(Len(node.children) - 1) |->
     LET m == normalize_value(Unwrap(node.children[i + 1].json)).m
     IN HalfOf(m, K_questIDHigh) * HalfMod + HalfOf(m, K_questIDLow)]

\* C25: in every database returned by the loader the entries of each
\* questline are in non-decreasing order of quest_id.as_u64(), whatever the
\* order of the directory listing.
C25_EntriesSorted ==
  loadResult.kind = "Ok" =>
    /\ \A l \in DOMAIN LoadedDb.questlines :
         \A i, j \in DOMAIN LoadedDb.questlines[l].entries :
           i < j => as_u64(LoadedDb.questlines[l].entries[i].quest_id)
                      <= as_u64(LoadedDb.questlines[l].entries[j].quest_id)
    /\ \A node \in Range(Listing(fs, <<StrQuestLines>>)) :
         /\ HeaderId(node) \in DOMAIN LoadedDb.questlines
         /\ LET entries == LoadedDb.questlines[HeaderId(node)].entries
                listed == ListedEntryIds(node)
            IN /\ Len(entries) = Len(listed)
               /\ \A id \in Range(listed) :
                    Cardinality({i \in DOMAIN entries : as_u64(entries[i].quest_id) = id})
                      = Cardinality({i \in DOMAIN listed : listed[i] = id})

\* a listing in descending order of the ids, loaded in ascending order
C25_Witness ==
  /\ loadResult.kind = "Ok"
  /\ ListedEntryIds(Listing(fs, <<StrQuestLines>>)[1])
       = <<(HalfMod - 1) * HalfMod, HalfMod, 1>>
  /\ \E l \in DOMAIN LoadedDb.questlines :
       [i \in 1..3 |-> as_u64(LoadedDb.questlines[l].entries[i].quest_id)]
         = <<1, HalfMod, (HalfMod - 1) * HalfMod>>

\* a directory node of QuestLines/ that holds no file QuestLine.json
Headerless(node) ==
  /\ node.is_dir
  /\ \A i \in DOMAIN node.children :
       node.children[i].name = StrQuestLineJson => node.children[i].is_dir
HeaderlessDirs ==
  IF is_dir(fs, <<StrQuestLines>>)
  THEN {n \in Range(Listing(fs, <<StrQuestLines>>)) : Headerless(n)}
  ELSE {}
\* the tree without the headerless directories of QuestLines/
WithoutHeaderless ==
  [fs EXCEPT !.root =
     [i \in DOMAIN fs.root |->
        IF fs.root[i].name = StrQuestLines /\ fs.root[i].is_dir
        THEN [fs.root[i] EXCEPT !.children = SelectSeq(@, LAMBDA n : ~Headerless(n))]
        ELSE fs.root[i]]]

\* C26: a questline directory without QuestLine.json contributes no
\* questline and does not change the outcome of the load, whatever entry
\* files it holds: the load returns what it returns for the tree without
\* its headerless directories.
C26_HeaderlessIgnored ==
  Loaded =>
    \E order \in LineOrders(ParseAll(WithoutHeaderless)) :
      loadResult = AssembleDatabase(ParseAll(WithoutHeaderless), order)

\* the entries of QuestLines/, and the header each directory among them yields
LineNodes ==
  IF is_dir(fs, <<StrQuestLines>>) THEN Listing(fs, <<StrQuestLines>>) ELSE <<>>
LineHeaders ==
  [i \in DOMAIN LineNodes |->
     IF LineNodes[i].is_dir THEN ParseHeader(fs, <<StrQuestLines, LineNodes[i].name>>)
     ELSE Ok(None)]
\* the pairs of questline directories whose headers yield the same id
SameLinePairs(headers) ==
  {pair \in (DOMAIN headers) \X (DOMAIN headers) :
     /\ pair[1] < pair[2]
     /\ headers[pair[1]].ok /\ headers[pair[2]].ok
     /\ IsSome(headers[pair[1]].val) /\ IsSome(headers[pair[2]].val)
     /\ Unwrap(headers[pair[1]].val).id = Unwrap(headers[pair[2]].val).id}
\* every step of the load before the questline directories succeeds
QuestsLoad ==
  /\ LoadSettings(fs).ok
  /\ is_dir(fs, <<StrQuests>>)
       => LoadQuests(fs, <<StrQuests>>, list_dir(fs, <<StrQuests>>), EmptyMap).ok
\* the questline directories up to the i-th parse, entry files included
LineDirsParse(i) ==
  \A k \in 1..i :
    LineNodes[k].is_dir
      => parse_questline_dir_from_source(fs, <<StrQuestLines, LineNodes[k].name>>).ok
\* in a returned database questline_order lists every key of questlines once
OrderIsPermutation ==
  loadResult.kind = "Ok" =>
    /\ Len(LoadedDb.questline_order) = Cardinality(DOMAIN LoadedDb.questlines)
    /\ Range(LoadedDb.questline_order) = DOMAIN LoadedDb.questlines

\* C27 as stated: two questline directories whose headers yield the same id
\* make the load fail with DuplicateQuestId naming the directory processed
\* second; in a returned database questline_order is a permutation of the
\* keys of questlines.
C27_DuplicateLineAlwaysReported ==
  /\ OrderIsPermutation
  /\ Loaded =>
       LET pairs == SameLinePairs(LineHeaders)
       IN pairs # {} =>
            /\ loadResult.kind = "DuplicateQuestId"
            /\ \E pair \in pairs :
                 loadResult.path = <<StrQuestLines, LineNodes[pair[2]].name>>

\* C27: two questline directories whose headers yield the same id never give
\* a database; when the settings, the quests and every questline directory up
\* to the first repeat parse, entry files included, the load fails with
\* DuplicateQuestId naming the directory of that repeat.  In a returned
\* database questline_order is a permutation of the keys of questlines.
C27_DuplicateLineReported ==
  /\ OrderIsPermutation
  /\ Loaded =>
       LET pairs == SameLinePairs(LineHeaders)
           second == FirstRepeat(pairs)
       IN pairs # {} =>
            /\ loadResult.kind # "Ok" /\ loadResult.db = None
            /\ (QuestsLoad /\ LineDirsParse(second))
               => /\ loadResult.kind = "DuplicateQuestId"
                  /\ loadResult.path = <<StrQuestLines, LineNodes[second].name>>

\* a duplicate reported for a second directory whose header has no high half
\* and whose entry files were parsed before the report
C27_Witness ==
  /\ loadResult.kind = "DuplicateQuestId"
  /\ loadResult.path = <<StrQuestLines, StrL2>>
  /\ SameLinePairs(LineHeaders) = {<<1, 2>>}
  /\ K_questLineIDHigh \notin DOMAIN Unwrap(LineNodes[2].children[1].json).m
  /\ Len(LineNodes[2].children) > 1

(***************************************************************************)
(* Properties of the cycle detection.                                      *)
(***************************************************************************)
InSearch == call.fn = "detect_cycle"
\* the de-duplicated required and optional prerequisites the search follows
Adjacency(q) ==
  IF IsXor(db.quests[q]) THEN {}
  ELSE Range(RequiredOf(db.quests[q])) \cup Range(OptionalsOf(db.quests[q]))

\* the witnesses dfs_visit, taken as one recursive function, reports for the
\* iteration orders of the quests
ReportedCycles ==
  {DetectCycle(order, call.adj, DfsInit(db.quests)).cycle :
     order \in Perms(DOMAIN db.quests)}

\* C28: a reported cycle is a genuine witness: it is not empty, its ids are
\* pairwise distinct quests of the database, each element after the first is
\* in the adjacency of the element before it, and the first element is in
\* the adjacency of the last.  It is a witness compute_importance_scores
\* returns for the database.
C28_GenuineCycle ==
  (InSearch /\ call.result = "cycle") =>
    LET cycle == call.cycle
    IN /\ Some(cycle) \in ReportedCycles
       /\ cycle # <<>>
       /\ \A i, j \in DOMAIN cycle : cycle[i] = cycle[j] => i = j
       /\ Range(cycle) \subseteq DOMAIN db.quests
       /\ \A i \in 2..Len(cycle) : cycle[i] \in Adjacency(cycle[i - 1])
       /\ cycle[1] \in Adjacency(cycle[Len(cycle)])

\* a cycle that is a proper slice of the stack, closed by an optional edge
C28_Witness ==
  /\ InSearch /\ call.result = "cycle"
  /\ Len(call.stack) = 3
  /\ call.cycle = SubSeq(call.stack, 2, 3)
  /\ call.cycle[1] \in Range(db.quests[call.cycle[2]].optional_prerequisites)

\* the number of times dfs_visit was entered for a quest
VisitsOf(q) == Cardinality({i \in DOMAIN call.visits : call.visits[i] = q})
\* a colour stays, or moves from white to gray, or from gray to black
ColoursAdvance ==
  (InSearch /\ call'.fn = "detect_cycle") =>
    \A q \in DOMAIN call.color :
      \/ call'.color[q] = call.color[q]
      \/ call.color[q] = "White" /\ call'.color[q] = "Gray"
      \/ call.color[q] = "Gray" /\ call'.color[q] = "Black"
SearchEndsClean ==
  InSearch =>
    /\ \A q \in DOMAIN db.quests : VisitsOf(q) <= 1
    /\ call.result = "ok" =>
         /\ \A q \in DOMAIN db.quests : call.color[q] = "Black"
         /\ call.stack = <<>>
         /\ call.pos_in_stack = EmptyMap

\* C29: the cycle detection terminates; the colour of a quest only moves
\* from white to gray to black; dfs_visit is entered at most once for a
\* quest; when no cycle is reported every quest is black and the stack and
\* pos_in_stack are empty.
C29_Terminates ==
  /\ [][ColoursAdvance]_vars
  /\ []SearchEndsClean
  /\ <>(InSearch /\ call.result # "running")

\* a search without a cycle over three quests, the third reached twice
C29_Witness ==
  /\ InSearch /\ call.result = "ok"
  /\ DOMAIN call.adj = {1, 2, 3}
  /\ call.adj[1] = <<2, 3>> /\ call.adj[2] = <<3>>
  /\ call.visits = <<1, 2, 3>>
  /\ \A q \in DOMAIN db.quests : call.color[q] = "Black"

\* C30: at every step of the search the stack holds exactly the gray
\* quests, each once, in the order they were visited, and pos_in_stack maps
\* each of them to its index in the stack; the fallback witness is never
\* returned.
C30_StackIsGray ==
  InSearch =>
    /\ \A i, j \in DOMAIN call.stack : call.stack[i] = call.stack[j] => i = j
    /\ Range(call.stack) = {q \in DOMAIN call.color : call.color[q] = "Gray"}
    /\ \A i, j \in DOMAIN call.stack :
         i < j => \E a, b \in DOMAIN call.visits :
                    /\ a < b
                    /\ call.visits[a] = call.stack[i]
                    /\ call.visits[b] = call.stack[j]
    /\ DOMAIN call.pos_in_stack = Range(call.stack)
    /\ \A i \in DOMAIN call.stack : call.pos_in_stack[call.stack[i]] = i - 1
    /\ AtNei /\ ColorOf(call.color, Nei) = "Gray" => Nei \in DOMAIN call.pos_in_stack
    /\ ~call.fallback

\* the search after a return: the second quest visited is black, the third
\* is on the stack at index 1
C30_Witness ==
  /\ InSearch /\ call.result = "running"
  /\ Len(call.visits) = 3
  /\ call.stack = <<call.visits[1], call.visits[3]>>
  /\ call.color[call.visits[2]] = "Black"
  /\ call.pos_in_stack[call.visits[3]] = 1

=============================================================================
